---- MODULE Spec2Model ----
(***************************************************************************)
(* Inventory reservation engine of the product service:                    *)
(*   usecase/inventory.go            BatchReserveInventory, Confirm,       *)
(*                                   Release, UpdateInventory              *)
(*   worker/reservation_expirer.go   the background expirer                *)
(*   repository (inventory, reservation, tx manager)   the SQL statements  *)
(*   redis idempotency store         SetNX / Get / Set / Del               *)
(*                                                                         *)
(* One action is one round trip to PostgreSQL or Redis, which is where the *)
(* Go code of one caller can be interleaved with the code of another.      *)
(* Statements sent through the pool are autocommitted; statements sent     *)
(* through a pgx.Tx are private to the transaction until Commit and hold   *)
(* their row locks until Commit or Rollback (READ COMMITTED).              *)
(***************************************************************************)
EXTENDS Integers, Sequences, FiniteSets, TLC

\* ------------------------------------------------------------------ bounds
MaxStock == 2
InitialStock == 1
MaxItemQty == 1
MaxRes == 2
SpecMaxRes == 1
MaxNow == 2
MaxVersion == 4

\* ------------------------------------------------- configuration (in ticks)
DefaultTTL == 1
MaxBatchSize == 2
BatchSize == 1

\* ------------------------------------------ BFF rate limit configuration
MaxClock == 5
FailureThreshold == 2
Window == 1
Cooldown == 3

SKUs == {1, 2}
Clients == {"c1", "c2"}
Workers == {"w1", "w2"}
Key == "K"
NoKey == ""

\* ---------------------------------------------------- reservation status
ReservationStatusPending == 0
ReservationStatusConfirmed == 1
ReservationStatusReleased == 2
ReservationStatusExpired == 3

IsFinal(s) ==
    \/ s = ReservationStatusConfirmed
    \/ s = ReservationStatusReleased
    \/ s = ReservationStatusExpired

\* ------------------------------------------------------- inventory rows
Row(q, r, v) == [quantity |-> q, reserved |-> r, version |-> v]

\* NewInventory: reserved 0, version 1
NewInventory(quantity) == Row(quantity, 0, 1)

\* The three CHECK constraints of product_service.inventory.
ChkInventory(row) ==
    /\ row.quantity >= 0
    /\ row.reserved >= 0
    /\ row.quantity >= row.reserved

\* A statement's outcome: ok is RowsAffected() = 1, row the row afterwards.
Affected(row) == [ok |-> TRUE, row |-> row]
NotAffected(row) == [ok |-> FALSE, row |-> row]

\* UPDATE ... SET quantity = $2, version = version + 1
\*   WHERE quantity - reserved <= $2 - reserved
UpdateQuantity(row, quantity) ==
    IF row.quantity - row.reserved <= quantity - row.reserved
    THEN Affected([row EXCEPT !.quantity = quantity, !.version = @ + 1])
    ELSE NotAffected(row)

\* UPDATE ... SET reserved = reserved + $2, version = version + 1
\*   WHERE quantity - reserved >= $2
ReserveWithTx(row, amount) ==
    IF row.quantity - row.reserved >= amount
    THEN Affected([row EXCEPT !.reserved = @ + amount, !.version = @ + 1])
    ELSE NotAffected(row)

ConfirmKeepsVersion(row, amount) ==
    IF row.reserved >= amount
    THEN Affected([row EXCEPT !.quantity = @ - amount, !.reserved = @ - amount])
    ELSE NotAffected(row)

\* UPDATE ... SET quantity = quantity - $2, reserved = reserved - $2,
\*   version = version + 1 WHERE reserved >= $2
ConfirmReservationStmt(row, amount) ==
    IF row.reserved >= amount
    THEN Affected([row EXCEPT !.quantity = @ - amount, !.reserved = @ - amount,
                              !.version = @ + 1])
    ELSE NotAffected(row)

ReleaseNoGuard(row, amount) ==
    Affected([row EXCEPT !.reserved = @ - amount, !.version = @ + 1])

\* UPDATE ... SET reserved = reserved - $2, version = version + 1
\*   WHERE reserved >= $2
ReleaseReservationStmt(row, amount) ==
    IF row.reserved >= amount
    THEN Affected([row EXCEPT !.reserved = @ - amount, !.version = @ + 1])
    ELSE NotAffected(row)

\* --------------------------------------------------------------- inputs
Item(s, q) == [sku |-> s, qty |-> q]
Items == {Item(s, q) : s \in SKUs, q \in 0..MaxItemQty}

\* request item lists: every list of up to MaxBatchSize items (the empty one
\* too) and one list that is too long
ItemLists ==
    UNION {[1..n -> Items] : n \in 0..MaxBatchSize}
        \cup {[i \in 1..(MaxBatchSize + 1) |-> Item(1, 1)]}

IsSortedBySKU(l) == \A i \in 1..(Len(l) - 1) : l[i].sku <= l[i + 1].sku

\* the orderings of n items
Orderings ==
    [n \in 0..(MaxBatchSize + 1) |->
        {f \in [1..n -> 1..n] : \A i, j \in 1..n : i # j => f[i] # f[j]}]

InputOrder(items) == {items}

\* sort.Slice by SKUID.String(): not stable, so any ordering of the items
\* that is ascending in the sku id may come out.
SortedItems(items) ==
    {m \in {[i \in 1..Len(items) |-> items[f[i]]] : f \in Orderings[Len(items)]} :
        IsSortedBySKU(m)}

\* NewReservation's validation: non-empty, every quantity > 0
ValidItems(items) == Len(items) > 0 /\ \A i \in 1..Len(items) : items[i].qty > 0

RECURSIVE SumQty(_, _)
SumQty(items, s) ==
    IF Len(items) = 0 THEN 0
    ELSE (IF items[1].sku = s THEN items[1].qty ELSE 0) + SumQty(Tail(items), s)

RECURSIVE CountSKU(_, _)
CountSKU(items, s) ==
    IF Len(items) = 0 THEN 0
    ELSE (IF items[1].sku = s THEN 1 ELSE 0) + CountSKU(Tail(items), s)

\* ----------------------------------------------------- idempotency store
V(kind, id) == [kind |-> kind, id |-> id]
Absent == V("absent", 0)
Processing == V("processing", 0)
Done == V("done", 0)
\* reservation.ID.String(): the only values uuid.Parse accepts
IdValue(rid) == V("id", rid)
ParseOK(v) == v.kind = "id"

ConfirmKey(k) == IF k = Key THEN "confirm:K" ELSE "confirm:"
ReleaseKey(k) == IF k = Key THEN "release:K" ELSE "release:"
KvKeys == {Key, ConfirmKey(Key), ReleaseKey(Key)}

SetNXOverwrites(store, k, v) == [ok |-> TRUE, kv |-> [store EXCEPT ![k] = v]]

SetNX(store, k, v) ==
    IF store[k] = Absent
    THEN [ok |-> TRUE, kv |-> [store EXCEPT ![k] = v]]
    ELSE [ok |-> FALSE, kv |-> store]
Set(store, k, v) == [store EXCEPT ![k] = v]
DelKeepsKey(store, k) == store

Del(store, k) == [store EXCEPT ![k] = Absent]
\* Get: Absent stands for ErrKeyNotFound
GetMisses(store, k) == Absent

Get(store, k) == store[k]

\* ---------------------------------------------------------------- state
VARIABLES
    inventory,      \* committed rows of product_service.inventory, by sku id
    reservations,   \* committed rows of product_service.reservations; id = index
    kv,             \* the idempotency store
    now,            \* the clock
    tx,             \* per client: the uncommitted row versions of its pgx.Tx
    call,           \* per client: the use-case call it is executing
    wk,             \* per expirer worker: its loop position
    relCount,       \* history: per reservation and item, the releases applied
                    \* by client calls and by the expirer
    first,          \* history: the first keyed reserve that returned a reservation
    keyExpired,     \* history: the record of Key has expired at least once
    ret,            \* the response the last step returned to a caller, if any
    \* the BFF
    clock,          \* time.Now() at the BFF
    limiter,        \* RateLimiter.state: per IP, absent or its ipState
    conn,           \* per connection: the request the BFF is serving on it
    recent,         \* history: per IP, the times of the failures recorded
                    \* within the last Window
    publicEndpoints, \* PublicEndpointMatcher.publicEndpoints
    out,            \* what the last step did that a client, the validator, a
                    \* handler or a downstream service observes
    http,           \* the HTTP request passing through HeaderSanitizer
    proxy,          \* the request a UserServiceProxy method is handling
    jwks,           \* JWKSManager: its fields, the key sets and the GetKey calls
    noReaper        \* a RateLimiter.state whose cleanup goroutine never runs

bffVars == <<clock, limiter, conn, recent, publicEndpoints, out, http, proxy,
             jwks, noReaper>>

vars == <<inventory, reservations, kv, now, tx, call, wk, relCount, first,
          keyExpired, ret, bffVars>>

NoFirst == [rid |-> 0, items |-> <<>>]
NoRelease == [client |-> 0, expirer |-> 0]

NoRow == Row(-1, -1, 0)
NoTx == [s \in SKUs |-> NoRow]

NoRet == [c |-> "none", op |-> "none", key |-> NoKey, rid |-> 0, err |-> "none"]
Ret(op, key, rid, err) == [c |-> "none", op |-> op, key |-> key, rid |-> rid, err |-> err]
Idle == [pc |-> "idle", op |-> "none", key |-> NoKey, items |-> <<>>, idx |-> 0,
         rid |-> 0, lock |-> FALSE, exp |-> 0, err |-> "none",
         after |-> 0,    \* history: the id a replay of the first reserve must return
         ret |-> NoRet]

\* the call returns (rid, err) to its caller
Returned(c, rid, err) == [Idle EXCEPT !.ret = Ret(call[c].op, call[c].key, rid, err)]

\* the step of client c: its call record afterwards and the response, if the
\* call returned
Put(c, rec) ==
    /\ call' = [call EXCEPT ![c] = [rec EXCEPT !.ret = NoRet]]
    /\ ret' = IF rec.ret = NoRet THEN NoRet ELSE [rec.ret EXCEPT !.c = c]

WorkerIdle == [pc |-> "wait", batch |-> <<>>, idx |-> 0, cancelled |-> FALSE]

Reservation(items, exp) ==
    [status |-> ReservationStatusPending, items |-> items, expiresAt |-> exp]

\* IsExpired: time.Now().After(ExpiresAt); FindExpiredPending: expires_at < now
IsExpired(res, t) == t > res.expiresAt

\* ----------------------------------------------------------- BFF state
IPs == {"ip1", "ip2"}
Conns == {"h1", "h2"}

\* no entry in RateLimiter.state
NoState == [failureCount |-> -1, windowStart |-> 0, cooldownUntil |-> 0]
\* the zero time.Time
ZeroTime == 0

\* what a step shows: the response sent on connection h (code), whether the
\* step extracted a token, invoked the validator, invoked the handler or a
\* downstream service, what RecordFailure returned, and the identity in the
\* request context
NoOut == [kind |-> "none", h |-> "none", ip |-> "none", proc |-> <<>>,
          code |-> "none", extracted |-> FALSE, validated |-> FALSE,
          limited |-> FALSE, subject |-> <<>>, scopes |-> <<>>, target |-> <<>>,
          message |-> "", wwwAuthenticate |-> "", reason |-> "", twin |-> FALSE]
ConnIdle == [pc |-> "idle", ip |-> "none", proc |-> <<>>, public |-> FALSE,
             identity |-> FALSE, subject |-> <<>>, scopes |-> <<>>, reason |-> ""]

\* strings are sequences of characters
Str(n, alphabet) == UNION {[1..k -> alphabet] : k \in 0..n}

\* no HTTP request received; a HeaderSanitizer over `config`
HttpIdle(config, toRemove) ==
    [pc |-> "idle", config |-> config, headersToRemove |-> toRemove,
     wire |-> <<>>, header |-> <<>>, seen |-> <<>>,
     sent |-> <<>>]      \* the header of the request sent downstream

\* no call of a UserServiceProxy method in progress
ProxyIdle == [pc |-> "idle", op |-> "none", userID |-> <<>>, scopes |-> <<>>,
              target |-> <<>>, authz |-> "none", err |-> "none", calls |-> 0]

\* NewRateLimiter: an empty map; no request is being served
AuthInit(endpoints) ==
    /\ clock = 1
    /\ limiter = [ip \in IPs |-> NoState]
    /\ conn = [h \in Conns |-> ConnIdle]
    /\ recent = [ip \in IPs |-> <<>>]
    /\ publicEndpoints = endpoints
    /\ out = NoOut

\* a JWKSManager that NewJWKSManager has not built yet, and no second limiter
NoJwks == [pc |-> "none"]
NoLimiter == [ip \in IPs |-> NoState]
RestInit == jwks = NoJwks /\ noReaper = NoLimiter

BffInitWith(endpoints) ==
    /\ AuthInit(endpoints)
    /\ http = HttpIdle({}, {})
    /\ proxy = ProxyIdle
    /\ RestInit

BffInit == BffInitWith({})

Init ==
    /\ BffInit
    /\ inventory = [s \in SKUs |-> NewInventory(InitialStock)]
    /\ reservations = <<>>
    /\ kv = [k \in KvKeys |-> Absent]
    /\ now = 0
    /\ tx = [c \in Clients |-> NoTx]
    /\ call = [c \in Clients |-> Idle]
    /\ wk = [w \in Workers |-> WorkerIdle]
    /\ relCount = <<>>
    /\ first = NoFirst
    /\ keyExpired = FALSE
    /\ ret = NoRet

\* ------------------------------------------------------ transactions
\* a row is locked by the transaction that has written it and not yet ended
LockedByOther(c, s) == \E d \in Clients \ {c} : tx[d][s] # NoRow
Locked(s) == \E d \in Clients : tx[d][s] # NoRow

\* what a transaction reads: its own version of a row it has written
TxRow(c, s) == IF tx[c][s] # NoRow THEN tx[c][s] ELSE inventory[s]

AbortKeepsWrites(inv, t) == [s \in SKUs |-> IF t[s] # NoRow THEN t[s] ELSE inv[s]]

\* DoWithTx, fn returned an error: the deferred tx.Rollback discards the writes
RolledBack(inv, t) == inv

\* DoWithTx, fn returned nil: tx.Commit publishes the writes
Committed(inv, t) == [s \in SKUs |-> IF t[s] # NoRow THEN t[s] ELSE inv[s]]

InFlightReserves == Cardinality({c \in Clients : call[c].pc \in {"br_tx", "br_commit"}})

\* --------------------------------------------- BatchReserveInventory
\* inventory.go 94-153: size checks, SetNX, sort, NewReservation
BatchReserveStart(c, items, key) ==
    /\ call[c].pc = "idle"
    /\ \E sorted \in SortedItems(items) :
        LET sized == Len(items) > 0 /\ Len(items) <= MaxBatchSize
            locked == key # NoKey /\ SetNX(kv, key, Processing).ok
            me == [Idle EXCEPT !.op = "reserve", !.key = key, !.items = sorted,
                               !.after = IF key # NoKey /\ first.rid # 0
                                            /\ sorted \in SortedItems(first.items)
                                         THEN first.rid ELSE 0]
            rec ==
                IF Len(items) = 0 THEN
                    [Idle EXCEPT !.ret = Ret("reserve", key, 0, "ErrInvalidQuantity")]
                ELSE IF Len(items) > MaxBatchSize THEN
                    [Idle EXCEPT !.ret = Ret("reserve", key, 0, "ErrBatchSizeExceeded")]
                ELSE IF key # NoKey /\ ~locked THEN
                    \* not locked: the Get is the next round trip
                    [me EXCEPT !.pc = "br_get"]
                ELSE IF ValidItems(sorted) THEN
                    [me EXCEPT !.pc = "br_tx", !.items = sorted, !.idx = 1,
                               !.lock = locked, !.exp = now + DefaultTTL]
                ELSE IF locked THEN
                    \* NewReservation failed: the deferred Del is still to run
                    [me EXCEPT !.pc = "br_del", !.lock = TRUE, !.err = "ErrInvalidQuantity"]
                ELSE
                    [Idle EXCEPT !.ret = Ret("reserve", key, 0, "ErrInvalidQuantity")]
        IN  /\ rec.pc = "br_tx" => Len(reservations) + InFlightReserves < MaxRes
            /\ kv' = IF sized /\ key # NoKey THEN SetNX(kv, key, Processing).kv ELSE kv
            /\ Put(c, rec)
    /\ UNCHANGED <<bffVars, inventory, reservations, now, tx, wk, relCount, first, keyExpired>>

\* what the call does with the value Get returned (inventory.go 108-119)
AfterGet(c, v) ==
    IF v = Absent THEN Returned(c, 0, "ErrKeyNotFound")
    ELSE IF v = Processing THEN Returned(c, 0, "ErrIdempotencyKeyExists")
    ELSE IF ParseOK(v) THEN [call[c] EXCEPT !.pc = "br_find", !.rid = v.id]
    ELSE Returned(c, 0, "ErrIdempotencyKeyExists")

\* inventory.go 108-119: the key exists; Get and decide
BatchReserveGet(c) ==
    /\ call[c].pc = "br_get"
    /\ Put(c, AfterGet(c, Get(kv, call[c].key)))
    /\ UNCHANGED <<bffVars, inventory, reservations, kv, now, tx, wk, relCount, first, keyExpired>>

\* inventory.go 117: replay, reservationRepo.FindByID
BatchReserveFind(c) ==
    /\ call[c].pc = "br_find"
    /\ Put(c, IF call[c].rid \in 1..Len(reservations)
              THEN Returned(c, call[c].rid, "ok")
              ELSE Returned(c, 0, "ErrReservationNotFound"))
    /\ UNCHANGED <<bffVars, inventory, reservations, kv, now, tx, wk, relCount, first, keyExpired>>

\* inventory.go 156-160: one ReserveWithTx; on RowsAffected = 0 fn returns
\* ErrInsufficientStock and DoWithTx rolls back
BatchReserveItem(c) ==
    /\ call[c].pc = "br_tx"
    /\ LET it == call[c].items[call[c].idx]
           r == ReserveWithTx(TxRow(c, it.sku), it.qty) IN
        /\ ~LockedByOther(c, it.sku)
        /\ IF r.ok THEN
                /\ tx' = [tx EXCEPT ![c][it.sku] = r.row]
                /\ Put(c, [call[c] EXCEPT !.idx = @ + 1,
                        !.pc = IF call[c].idx = Len(call[c].items)
                               THEN "br_commit" ELSE "br_tx"])
                /\ UNCHANGED inventory
           ELSE
                /\ inventory' = RolledBack(inventory, tx[c])
                /\ tx' = [tx EXCEPT ![c] = NoTx]
                /\ Put(c, IF call[c].lock
                          THEN [call[c] EXCEPT !.pc = "br_del", !.err = "ErrInsufficientStock"]
                          ELSE Returned(c, 0, "ErrInsufficientStock"))
    /\ UNCHANGED <<bffVars, reservations, kv, now, wk, relCount, first, keyExpired>>

\* inventory.go 161 and DoWithTx's Commit: insert the reservation, commit
BatchReserveCommit(c) ==
    /\ call[c].pc = "br_commit"
    /\ inventory' = Committed(inventory, tx[c])
    /\ reservations' = Append(reservations, Reservation(call[c].items, call[c].exp))
    /\ relCount' = Append(relCount, [i \in 1..Len(call[c].items) |-> NoRelease])
    /\ tx' = [tx EXCEPT ![c] = NoTx]
    /\ Put(c, IF call[c].lock
              THEN [call[c] EXCEPT !.pc = "br_set", !.rid = Len(reservations) + 1]
              ELSE Returned(c, Len(reservations) + 1, "ok"))
    /\ UNCHANGED <<bffVars, kv, now, wk, first, keyExpired>>

\* inventory.go 168-173: record the reservation id under the key
BatchReserveSet(c) ==
    /\ call[c].pc = "br_set"
    /\ kv' = Set(kv, call[c].key, IdValue(call[c].rid))
    /\ first' = IF first.rid = 0
                THEN [rid |-> call[c].rid, items |-> reservations[call[c].rid].items]
                ELSE first
    /\ Put(c, Returned(c, call[c].rid, "ok"))
    /\ UNCHANGED <<bffVars, inventory, reservations, now, tx, wk, relCount, keyExpired>>

\* inventory.go 125-129: the deferred Del of a call that did not commit
BatchReserveDel(c) ==
    /\ call[c].pc = "br_del"
    /\ kv' = Del(kv, call[c].key)
    /\ Put(c, Returned(c, 0, call[c].err))
    /\ UNCHANGED <<bffVars, inventory, reservations, now, tx, wk, relCount, first, keyExpired>>

\* ------------------------------------ ConfirmReservation / ReleaseReservation
SharedMarkerKey(op, k) == ConfirmKey(k)

\* "confirm:"+idempotencyKey / "release:"+idempotencyKey
MarkerKey(op, k) == IF op = "confirm" THEN ConfirmKey(k) ELSE ReleaseKey(k)

\* reservation.Confirm() / reservation.Release() on the row FindByID loaded:
\* "ok" or the error returned
DomainCheck(op, res, t) ==
    IF op = "confirm" THEN
        IF res.status = ReservationStatusPending /\ ~IsExpired(res, t) THEN "ok"
        ELSE IF IsExpired(res, t) THEN "ErrReservationExpired"
        ELSE "ErrReservationNotPending"
    ELSE
        IF res.status = ReservationStatusPending THEN "ok"
        ELSE "ErrReservationNotPending"

\* FindByID and the domain check (inventory.go 183-190, 216-223)
Loaded(op, rid, key) ==
    IF rid \notin 1..Len(reservations) THEN
        [Idle EXCEPT !.ret = Ret(op, key, rid, "ErrReservationNotFound")]
    ELSE IF DomainCheck(op, reservations[rid], now) # "ok" THEN
        [Idle EXCEPT !.ret = Ret(op, key, rid, DomainCheck(op, reservations[rid], now))]
    ELSE
        [Idle EXCEPT !.pc = "item", !.op = op, !.key = key, !.rid = rid,
                     !.items = reservations[rid].items, !.idx = 1]

\* inventory.go 177-190 / 210-223: the marker lookup; without a key the call
\* starts with FindByID
FinishStart(c, op, rid, key) ==
    /\ call[c].pc = "idle"
    /\ Put(c, IF key = NoKey THEN Loaded(op, rid, key)
              ELSE IF Get(kv, MarkerKey(op, key)) # Absent
                   THEN [Idle EXCEPT !.ret = Ret(op, key, rid, "ok")]
                   ELSE [Idle EXCEPT !.pc = "find", !.op = op, !.key = key, !.rid = rid])
    /\ UNCHANGED <<bffVars, inventory, reservations, kv, now, tx, wk, relCount, first, keyExpired>>

FinishFind(c, op) ==
    /\ call[c].pc = "find"
    /\ call[c].op = op
    /\ Put(c, Loaded(op, call[c].rid, call[c].key))
    /\ UNCHANGED <<bffVars, inventory, reservations, kv, now, tx, wk, relCount, first, keyExpired>>

\* inventory.go 192-196 / 225-229: one autocommitted inventory statement
FinishItem(c, op) ==
    /\ call[c].pc = "item"
    /\ call[c].op = op
    /\ LET it == call[c].items[call[c].idx]
           r == IF op = "confirm"
                THEN ConfirmReservationStmt(inventory[it.sku], it.qty)
                ELSE ReleaseReservationStmt(inventory[it.sku], it.qty) IN
        /\ ~Locked(it.sku)
        /\ inventory' = [inventory EXCEPT ![it.sku] = r.row]
        /\ relCount' = IF op = "release" /\ r.ok
                       THEN [relCount EXCEPT ![call[c].rid][call[c].idx].client = @ + 1]
                       ELSE relCount
        /\ Put(c, IF ~r.ok THEN Returned(c, call[c].rid, "ErrInvalidReserved")
                  ELSE [call[c] EXCEPT !.idx = @ + 1,
                        !.pc = IF call[c].idx = Len(call[c].items) THEN "status" ELSE "item"])
    /\ UNCHANGED <<bffVars, reservations, kv, now, tx, wk, first, keyExpired>>

\* UPDATE reservations SET status = $2 WHERE id = $1
UpdateStatus(rows, rid, status) == [rows EXCEPT ![rid].status = status]

\* inventory.go 198-200 / 231-233
FinishStatus(c, op) ==
    /\ call[c].pc = "status"
    /\ call[c].op = op
    /\ reservations' = UpdateStatus(reservations, call[c].rid,
            IF op = "confirm" THEN ReservationStatusConfirmed
            ELSE ReservationStatusReleased)
    /\ Put(c, IF call[c].key # NoKey THEN [call[c] EXCEPT !.pc = "mark"]
              ELSE Returned(c, call[c].rid, "ok"))
    /\ UNCHANGED <<bffVars, inventory, kv, now, tx, wk, relCount, first, keyExpired>>

\* inventory.go 202-204 / 235-237
FinishMark(c, op) ==
    /\ call[c].pc = "mark"
    /\ call[c].op = op
    /\ kv' = Set(kv, MarkerKey(op, call[c].key), Done)
    /\ Put(c, Returned(c, call[c].rid, "ok"))
    /\ UNCHANGED <<bffVars, inventory, reservations, now, tx, wk, relCount, first, keyExpired>>

ConfirmReservationStart(c, rid, key) == FinishStart(c, "confirm", rid, key)
ConfirmReservationFind(c) == FinishFind(c, "confirm")
ConfirmReservationItem(c) == FinishItem(c, "confirm")
ConfirmReservationStatus(c) == FinishStatus(c, "confirm")
ConfirmReservationMark(c) == FinishMark(c, "confirm")

ReleaseReservationStart(c, rid, key) == FinishStart(c, "release", rid, key)
ReleaseReservationFind(c) == FinishFind(c, "release")
ReleaseReservationItem(c) == FinishItem(c, "release")
ReleaseReservationStatus(c) == FinishStatus(c, "release")
ReleaseReservationMark(c) == FinishMark(c, "release")

\* -------------------------------------------------------- UpdateInventory
\* inventory.go 89-91: one autocommitted UpdateQuantity
UpdateInventory(c, s, quantity) ==
    /\ call[c].pc = "idle"
    /\ ~Locked(s)
    /\ inventory[s].version < MaxVersion
    /\ LET r == UpdateQuantity(inventory[s], quantity) IN
        /\ inventory' = [inventory EXCEPT ![s] = r.row]
        /\ Put(c, [Idle EXCEPT !.ret = Ret("update", NoKey, 0,
                        IF r.ok THEN "ok" ELSE "ErrInsufficientStock")])
    /\ UNCHANGED <<bffVars, reservations, kv, now, tx, wk, relCount, first, keyExpired>>

\* ----------------------------------------------------- ReservationExpirer
\* SELECT ... WHERE status = PENDING AND expires_at < now ORDER BY expires_at
\* LIMIT $3 FOR UPDATE SKIP LOCKED, sent through the pool: the statement is its
\* own transaction, so its row locks are gone when it returns. No transaction
\* of the program keeps a lock on a committed reservation row, so SKIP LOCKED
\* skips nothing. Rows with equal expires_at come in any order.
ExpiredPending(rows, t) ==
    {r \in 1..Len(rows) :
        rows[r].status = ReservationStatusPending /\ rows[r].expiresAt < t}

FindExpiredPending(rows, t, limit) ==
    LET cand == ExpiredPending(rows, t)
        n == IF Cardinality(cand) < limit THEN Cardinality(cand) ELSE limit IN
    {b \in [1..n -> cand] :
        /\ \A i, j \in 1..n : i # j => b[i] # b[j]
        /\ \A i \in 1..(n - 1) : rows[b[i]].expiresAt <= rows[b[i + 1]].expiresAt
        /\ \A r \in cand : (\A i \in 1..n : b[i] # r) =>
                \A i \in 1..n : rows[b[i]].expiresAt <= rows[r].expiresAt}

\* reservation_expirer.go 52-67: a tick of the ticker, processExpired's query
ExpirerTick(w) ==
    /\ wk[w].pc = "wait"
    /\ ~wk[w].cancelled
    /\ \E b \in FindExpiredPending(reservations, now, BatchSize) :
        wk' = [wk EXCEPT ![w] =
                IF Len(b) = 0 THEN wk[w]
                ELSE [wk[w] EXCEPT !.pc = "loop", !.batch = b, !.idx = 1]]
    /\ UNCHANGED <<bffVars, inventory, reservations, kv, now, tx, call, relCount, first, keyExpired>>
    /\ ret' = NoRet

\* the loop goes on with the next reservation of the batch
NextOfBatch(w) ==
    IF Len(wk[w].batch) = 1 THEN [wk[w] EXCEPT !.pc = "wait", !.batch = <<>>, !.idx = 0]
    ELSE [wk[w] EXCEPT !.pc = "loop", !.batch = Tail(@), !.idx = 1]

\* reservation_expirer.go 91-95: one autocommitted ReleaseReservation; the
\* transaction txManager.Do began is not the connection it runs on
ExpirerItem(w) ==
    /\ wk[w].pc = "loop"
    /\ ~wk[w].cancelled
    /\ LET rid == wk[w].batch[1]
           it == reservations[rid].items[wk[w].idx]
           r == ReleaseReservationStmt(inventory[it.sku], it.qty) IN
        /\ ~Locked(it.sku)
        /\ inventory' = [inventory EXCEPT ![it.sku] = r.row]
        /\ relCount' = IF r.ok THEN [relCount EXCEPT ![rid][wk[w].idx].expirer = @ + 1]
                       ELSE relCount
        /\ wk' = [wk EXCEPT ![w] =
                IF ~r.ok THEN NextOfBatch(w)
                ELSE IF wk[w].idx = Len(reservations[rid].items)
                     THEN [wk[w] EXCEPT !.pc = "status"]
                     ELSE [wk[w] EXCEPT !.idx = @ + 1]]
    /\ UNCHANGED <<bffVars, reservations, kv, now, tx, call, first, keyExpired>>
    /\ ret' = NoRet

\* reservation_expirer.go 97: UpdateStatus(EXPIRED)
ExpirerStatus(w) ==
    /\ wk[w].pc = "status"
    /\ ~wk[w].cancelled
    /\ reservations' = UpdateStatus(reservations, wk[w].batch[1], ReservationStatusExpired)
    /\ wk' = [wk EXCEPT ![w] = NextOfBatch(w)]
    /\ UNCHANGED <<bffVars, inventory, kv, now, tx, call, relCount, first, keyExpired>>
    /\ ret' = NoRet

\* the shutdown signal: the worker's context is cancelled
Cancel(w) ==
    /\ ~wk[w].cancelled
    /\ wk[w].pc # "stopped"
    /\ wk' = [wk EXCEPT ![w].cancelled = TRUE]
    /\ UNCHANGED <<bffVars, inventory, reservations, kv, now, tx, call, relCount, first, keyExpired>>
    /\ ret' = NoRet

ExpirerKeepsWaiting(w) ==
    /\ wk[w].cancelled
    /\ wk[w].pc # "stopped"
    /\ UNCHANGED vars

\* with the context cancelled the next statement fails with the context's
\* error, processExpired returns at its ctx.Err() check and Start returns
ExpirerStop(w) ==
    /\ wk[w].cancelled
    /\ wk[w].pc # "stopped"
    /\ wk' = [wk EXCEPT ![w] = [WorkerIdle EXCEPT !.pc = "stopped", !.cancelled = TRUE]]
    /\ UNCHANGED <<bffVars, inventory, reservations, kv, now, tx, call, relCount, first, keyExpired>>
    /\ ret' = NoRet

\* ------------------------------------------------------------ environment
Tick ==
    /\ now < MaxNow
    /\ now' = now + 1
    /\ UNCHANGED <<bffVars, inventory, reservations, kv, tx, call, wk, relCount, first, keyExpired>>
    /\ ret' = NoRet

UsesKey(c, k) ==
    /\ call[c].pc # "idle"
    /\ call[c].key # NoKey
    /\ \/ call[c].op = "reserve" /\ k = call[c].key
       \/ call[c].op \in {"confirm", "release"} /\ k = MarkerKey(call[c].op, call[c].key)

\* Redis drops a record when its TTL (idempotencyTTL) has run out. The TTL is
\* taken to outlast a call: no record expires under a call that uses its key.
KeyExpires(k) ==
    /\ kv[k] # Absent
    /\ \A c \in Clients : ~UsesKey(c, k)
    /\ kv' = [kv EXCEPT ![k] = Absent]
    /\ keyExpired' = (keyExpired \/ k = Key)
    /\ UNCHANGED <<bffVars, inventory, reservations, now, tx, call, wk, relCount, first>>
    /\ ret' = NoRet

\* ------------------------------------------------------------------ Next
\* every operation, without idempotency keys: two callers and one expirer
Next ==
    \/ \E c \in Clients, items \in ItemLists :
          /\ Len(reservations) + InFlightReserves < SpecMaxRes
          /\ BatchReserveStart(c, items, NoKey)
    \/ \E c \in Clients : BatchReserveItem(c)
    \/ \E c \in Clients : BatchReserveCommit(c)
    \/ \E c \in Clients, rid \in 1..MaxRes : ConfirmReservationStart(c, rid, NoKey)
    \/ \E c \in Clients : ConfirmReservationItem(c)
    \/ \E c \in Clients : ConfirmReservationStatus(c)
    \/ \E c \in Clients, rid \in 1..MaxRes : ReleaseReservationStart(c, rid, NoKey)
    \/ \E c \in Clients : ReleaseReservationItem(c)
    \/ \E c \in Clients : ReleaseReservationStatus(c)
    \/ \E c \in Clients, s \in SKUs, q \in 0..MaxStock : UpdateInventory(c, s, q)
    \/ ExpirerTick("w1")
    \/ ExpirerItem("w1")
    \/ ExpirerStatus("w1")
    \/ Tick

Spec == Init /\ [][Next]_vars

\* ------------------------------------------------------------ SpecExpire
\* The database after MaxRes BatchReserveInventory calls have committed at
\* time 0 against rows created with MaxStock units: the reservations are
\* PENDING, each row's reserved is the sum of their items on its sku and its
\* version has grown by one per reserved item.
RECURSIVE AllItems(_, _)
AllItems(l, n) == IF n = 0 THEN <<>> ELSE AllItems(l, n - 1) \o l[n]

ReservedLists ==
    {l \in [1..MaxRes -> {items \in ItemLists : ValidItems(items) /\ IsSortedBySKU(items)}] :
        \A s \in SKUs : SumQty(AllItems(l, MaxRes), s) <= MaxStock}

InitExpire ==
    /\ BffInit
    /\ \E l \in ReservedLists :
        /\ reservations = [r \in 1..MaxRes |-> Reservation(l[r], DefaultTTL)]
        /\ inventory = [s \in SKUs |->
                Row(MaxStock, SumQty(AllItems(l, MaxRes), s),
                    NewInventory(MaxStock).version + CountSKU(AllItems(l, MaxRes), s))]
        /\ relCount = [r \in 1..MaxRes |-> [i \in 1..Len(l[r]) |-> NoRelease]]
    /\ kv = [k \in KvKeys |-> Absent]
    /\ now = 0
    /\ tx = [c \in Clients |-> NoTx]
    /\ call = [c \in Clients |-> Idle]
    /\ wk = [w \in Workers |-> WorkerIdle]
    /\ first = NoFirst
    /\ keyExpired = FALSE
    /\ ret = NoRet

\* one caller confirming and releasing, two expirer workers (two instances of
\* the service) and the shutdown of a worker
NextExpire ==
    \/ \E rid \in 1..MaxRes : ConfirmReservationStart("c1", rid, NoKey)
    \/ ConfirmReservationItem("c1")
    \/ ConfirmReservationStatus("c1")
    \/ \E rid \in 1..MaxRes : ReleaseReservationStart("c1", rid, NoKey)
    \/ ReleaseReservationItem("c1")
    \/ ReleaseReservationStatus("c1")
    \/ \E w \in Workers : ExpirerTick(w)
    \/ \E w \in Workers : ExpirerItem(w)
    \/ \E w \in Workers : ExpirerStatus(w)
    \/ \E w \in Workers : Cancel(w)
    \/ \E w \in Workers : ExpirerStop(w)
    \/ Tick

SpecExpire == InitExpire /\ [][NextExpire]_vars

\* --------------------------------------------------------- SpecExpireFair
\* one caller releasing and one expirer that is never shut down; the ticker
\* keeps firing, every statement sent gets its answer and time passes
NextExpireFair ==
    \/ \E rid \in 1..MaxRes : ReleaseReservationStart("c1", rid, NoKey)
    \/ ReleaseReservationItem("c1")
    \/ ReleaseReservationStatus("c1")
    \/ ExpirerTick("w1")
    \/ ExpirerItem("w1")
    \/ ExpirerStatus("w1")
    \/ Tick

SpecExpireFair ==
    /\ InitExpire
    /\ [][NextExpireFair]_vars
    /\ WF_vars(ReleaseReservationItem("c1"))
    /\ WF_vars(ReleaseReservationStatus("c1"))
    /\ WF_vars(ExpirerTick("w1"))
    /\ WF_vars(ExpirerItem("w1"))
    /\ WF_vars(ExpirerStatus("w1"))
    /\ WF_vars(Tick)

\* ---------------------------------------------------------- SpecReserve
\* concurrent BatchReserveInventory calls, with and without the idempotency
\* key, and the expiry of the key's record
NextReserve ==
    \/ \E c \in Clients, items \in ItemLists, key \in {NoKey, Key} :
            BatchReserveStart(c, items, key)
    \/ \E c \in Clients : BatchReserveGet(c)
    \/ \E c \in Clients : BatchReserveFind(c)
    \/ \E c \in Clients : BatchReserveItem(c)
    \/ \E c \in Clients : BatchReserveCommit(c)
    \/ \E c \in Clients : BatchReserveSet(c)
    \/ \E c \in Clients : BatchReserveDel(c)
    \/ KeyExpires(Key)

SpecReserve == Init /\ [][NextReserve]_vars

\* a step of client c
Steps(c) == call'[c] # call[c]

\* the reserve calls that hold the lock of key k
Holders(k) == {c \in Clients : call[c].op = "reserve" /\ call[c].key = k /\ call[c].lock}

\* C3: BatchReserveInventory is all-or-nothing. While the call's transaction
\* is open no committed inventory or reservation row changes; when an item
\* cannot be reserved the call ends with ErrInsufficientStock and still
\* nothing has changed; when it commits, every sku's reserved has grown by the
\* quantities of the call's items on that sku, its version by their number,
\* and exactly one row, PENDING and holding the items, has been inserted.
C3_AllOrNothing ==
    [][\A c \in Clients :
        /\ (call[c].pc = "br_tx" /\ Steps(c)) =>
            /\ inventory' = inventory
            /\ reservations' = reservations
            /\ call'[c].pc = "idle" => ret'.c = c /\ ret'.err = "ErrInsufficientStock"
            /\ call'[c].pc = "br_del" => call'[c].err = "ErrInsufficientStock"
            /\ call'[c].pc \in {"idle", "br_del", "br_tx", "br_commit"}
            /\ call'[c].pc \in {"idle", "br_del"} => tx'[c] = NoTx
        /\ (call[c].pc = "br_commit" /\ Steps(c)) =>
            /\ \A s \in SKUs : inventory'[s] =
                    [inventory[s] EXCEPT !.reserved = @ + SumQty(call[c].items, s),
                                         !.version = @ + CountSKU(call[c].items, s)]
            /\ Len(reservations') = Len(reservations) + 1
            /\ \A r \in 1..Len(reservations) : reservations'[r] = reservations[r]
            /\ reservations'[Len(reservations')].status = ReservationStatusPending
            /\ reservations'[Len(reservations')].items = call[c].items
    ]_vars

\* C3 witness: the second item of a call is about to fail after its first
\* item was reserved inside the transaction, and another call has committed
C3_Witness ==
    \E c \in Clients :
        /\ call[c].pc = "br_tx"
        /\ call[c].idx = 2
        /\ tx[c] # NoTx
        /\ ~LockedByOther(c, call[c].items[2].sku)
        /\ ~ReserveWithTx(TxRow(c, call[c].items[2].sku), call[c].items[2].qty).ok
        /\ Len(reservations) = 1

C5_ProcessingExcludes ==
    [][/\ \A c \in Clients :
            /\ (call[c].pc = "br_get" /\ kv[call[c].key] = Processing /\ Steps(c)) =>
                    ret'.c = c /\ ret'.err = "ErrIdempotencyKeyExists"
            /\ (call[c].op = "reserve" /\ call[c].key # NoKey /\ ~call[c].lock
                    /\ Steps(c)) =>
                    inventory' = inventory /\ reservations' = reservations
            /\ (call[c].op = "reserve" /\ call[c].key # NoKey
                    /\ reservations' # reservations /\ Steps(c)) =>
                    /\ call[c].lock
                    /\ kv[call[c].key] = Processing
                    /\ Len(reservations') = Len(reservations) + 1
       /\ Cardinality(Holders(Key)') <= 1
    ]_vars

\* C5 witness: one call holds the lock inside its transaction and another
\* call with the key has just been refused
C5_Witness ==
    /\ ret.op = "reserve"
    /\ ret.key = Key
    /\ ret.err = "ErrIdempotencyKeyExists"
    /\ \E c \in Clients : call[c].lock /\ call[c].pc = "br_commit" /\ call[c].key = Key

C1_InventoryInvariant ==
    /\ \A s \in SKUs : ChkInventory(inventory[s])
    /\ \A c \in Clients, s \in SKUs : tx[c][s] # NoRow => ChkInventory(tx[c][s])

\* C1 witness: two ReleaseReservation calls loaded the same PENDING
\* reservation; the statement of the second has just been refused by its
\* guard on a row whose reserved is 0
C1_Witness ==
    /\ ret.op = "release"
    /\ ret.err = "ErrInvalidReserved"
    /\ \E s \in SKUs : inventory[s].reserved = 0 /\ inventory[s].version > 1

\* the expirer worker is between its query and the end of the reservation at
\* the head of its batch
Handling(w) == wk[w].pc \in {"loop", "status"}

\* the items the worker's attempt on that reservation has released so far
ReleasedByAttempt(w) ==
    IF wk[w].pc = "status" THEN Len(reservations[wk[w].batch[1]].items)
    ELSE wk[w].idx - 1

\* this step ends the worker's attempt on the reservation
AttemptEnds(w) ==
    /\ Handling(w)
    /\ wk'[w].pc \notin {"loop", "status"} \/ wk'[w].batch # wk[w].batch

Selected(w) == {wk[w].batch[i] : i \in 1..Len(wk[w].batch)}

\* C2: a reservation is created PENDING, and no step changes a stored status
\* that is CONFIRMED, RELEASED or EXPIRED.
C2_TerminalNeverChanges ==
    [][/\ \A r \in 1..Len(reservations) :
            IsFinal(reservations[r].status) =>
                reservations'[r].status = reservations[r].status
       /\ \A r \in (Len(reservations) + 1)..Len(reservations') :
            reservations'[r].status = ReservationStatusPending
    ]_vars

\* C7: no item of a reservation has its reserved amount subtracted both by a
\* ReleaseReservation call and by the expirer.
C7_ReleasedOnce ==
    \A r \in 1..Len(relCount) : \A i \in 1..Len(relCount[r]) :
        ~(relCount[r][i].client >= 1 /\ relCount[r][i].expirer >= 1)

\* C8: a reservation that is PENDING with expires-at in the past eventually
\* leaves PENDING: the expirer sets it to EXPIRED unless a call confirmed or
\* released it first.
C8_EventuallyExpired ==
    \A r \in 1..MaxRes :
        (reservations[r].status = ReservationStatusPending
            /\ reservations[r].expiresAt < now)
        ~> (reservations[r].status # ReservationStatusPending)

\* C9: when a worker's attempt on a reservation ends, either the step sets
\* the status to EXPIRED after every item was released, or the attempt has
\* released no item and the step changes no inventory row and no status.
C9_ExpireAtomic ==
    [][\A w \in Workers :
        AttemptEnds(w) =>
            \/ /\ wk[w].pc = "status"
               /\ reservations'[wk[w].batch[1]].status = ReservationStatusExpired
            \/ /\ ReleasedByAttempt(w) = 0
               /\ inventory' = inventory
               /\ reservations' = reservations
    ]_vars

\* C10: while a reservation is in the batch one worker selected and has not
\* finished, no other worker releases its items or updates its status.
C10_NoSharedReservation ==
    [][\A w, v \in Workers :
        (w # v /\ Handling(w) /\ wk'[w] # wk[w]
            /\ (inventory' # inventory \/ reservations' # reservations)) =>
            wk[w].batch[1] \notin Selected(v)
    ]_vars

\* the transaction of c waits for a row lock another transaction holds
Blocked(c) ==
    /\ call[c].pc = "br_tx"
    /\ LockedByOther(c, call[c].items[call[c].idx].sku)

InTx(c) == call[c].pc \in {"br_tx", "br_commit"}

\* C11: concurrent BatchReserveInventory transactions never deadlock. Every
\* row lock a transaction holds is on a sku not above the sku it locks next
\* (ascending acquisition), and whenever transactions are open at least one
\* of them is not waiting for a lock, so it can commit or fail.
C11_NoDeadlock ==
    /\ \A c \in Clients : call[c].pc = "br_tx" =>
            \A s \in SKUs : tx[c][s] # NoRow => s <= call[c].items[call[c].idx].sku
    /\ (\E c \in Clients : InTx(c)) => \E c \in Clients : InTx(c) /\ ~Blocked(c)

\* C11 witness: a transaction that holds a row lock waits for the lock of
\* its next sku, held by another transaction
C11_Witness ==
    \E c \in Clients : Blocked(c) /\ tx[c] # NoTx

\* ======================================================================
\* The BFF: PublicEndpointMatcher, RateLimiter, Validator, AuthInterceptor
\* ======================================================================

coreVars == <<inventory, reservations, kv, now, tx, call, wk, relCount, first,
              keyExpired, ret>>

\* the product service at rest
CoreInit ==
    /\ inventory = [s \in SKUs |-> NewInventory(InitialStock)]
    /\ reservations = <<>>
    /\ kv = [k \in KvKeys |-> Absent]
    /\ now = 0
    /\ tx = [c \in Clients |-> NoTx]
    /\ call = [c \in Clients |-> Idle]
    /\ wk = [w \in Workers |-> WorkerIdle]
    /\ relCount = <<>>
    /\ first = NoFirst
    /\ keyExpired = FALSE
    /\ ret = NoRet

\* ------------------------------------------------- PublicEndpointMatcher
ProcChars == {"/", "a"}
MaxProcLen == 3
Procedures == Str(MaxProcLen, ProcChars)

\* the configurations: none, one endpoint, an endpoint and an extension of it
PublicConfigs == SUBSET {<<"/", "a">>, <<"/", "a", "a">>}

IsPrefixOf(p, e) == Len(p) <= Len(e) /\ \A i \in 1..Len(p) : p[i] = e[i]

IsPublicByPrefix(endpoints, procedure) ==
    \E e \in endpoints : IsPrefixOf(e, procedure)

\* IsPublic: _, exists := m.publicEndpoints[procedure]
IsPublic(endpoints, procedure) == procedure \in endpoints

\* ----------------------------------------------------------- RateLimiter
NewState(t) == [failureCount |-> 0, windowStart |-> t, cooldownUntil |-> ZeroTime]

IsRateLimitedNever(lim, ip, t) == FALSE

\* IsRateLimited: exists, cooldownUntil not zero, time.Now().Before(cooldownUntil)
IsRateLimited(lim, ip, t) ==
    /\ lim[ip] # NoState
    /\ lim[ip].cooldownUntil # ZeroTime
    /\ t < lim[ip].cooldownUntil

\* the window never expires
RecordFailureKeepsWindow(lim, ip, t) ==
    LET s0 == IF lim[ip] = NoState THEN NewState(t) ELSE lim[ip]
        s1 == IF s0.cooldownUntil # ZeroTime /\ t > s0.cooldownUntil
              THEN NewState(t) ELSE s0
        s3 == [s1 EXCEPT !.failureCount = @ + 1]
    IN  IF s3.failureCount >= FailureThreshold
        THEN [limited |-> TRUE,
              state |-> [lim EXCEPT ![ip] = [s3 EXCEPT !.cooldownUntil = t + Cooldown]]]
        ELSE [limited |-> FALSE, state |-> [lim EXCEPT ![ip] = s3]]

\* the failure is not recorded
RecordFailureLost(lim, ip, t) == [limited |-> FALSE, state |-> lim]

\* RecordFailure, under the mutex: the value returned and the map afterwards
RecordFailure(lim, ip, t) ==
    LET s0 == IF lim[ip] = NoState THEN NewState(t) ELSE lim[ip]
        \* cooldown has expired: reset
        s1 == IF s0.cooldownUntil # ZeroTime /\ t > s0.cooldownUntil
              THEN NewState(t) ELSE s0
        \* window has expired: reset the counter and the window
        s2 == IF t - s1.windowStart > Window
              THEN [s1 EXCEPT !.failureCount = 0, !.windowStart = t] ELSE s1
        s3 == [s2 EXCEPT !.failureCount = @ + 1]
    IN  IF s3.failureCount >= FailureThreshold
        THEN [limited |-> TRUE,
              state |-> [lim EXCEPT ![ip] = [s3 EXCEPT !.cooldownUntil = t + Cooldown]]]
        ELSE [limited |-> FALSE, state |-> [lim EXCEPT ![ip] = s3]]

\* entries are evicted whatever their cooldown
CleanupIgnoresCooldown(lim, t) ==
    [ip \in IPs |->
        IF lim[ip] # NoState /\ t - lim[ip].windowStart > Window * 2
        THEN NoState ELSE lim[ip]]

\* cleanup, one firing of its ticker
Cleanup(lim, t) ==
    [ip \in IPs |->
        IF /\ lim[ip] # NoState
           /\ t - lim[ip].windowStart > Window * 2
           /\ lim[ip].cooldownUntil = ZeroTime \/ t > lim[ip].cooldownUntil
        THEN NoState ELSE lim[ip]]

\* the failure times not older than the window
Within(times, t) == SelectSeq(times, LAMBDA x : t - x <= Window)

\* -------------------------------------------------------------- Validator
SubjectChars == {"u", "v"}
Subjects == Str(1, SubjectChars)

\* scope strings; the literal "admin" is the two characters a d
ScopeChars == {"a", "d", " "}
ScopeAdmin == <<"a", "d">>

\* strings.Split(str, " "): the pieces between the separators
RECURSIVE SplitFrom(_, _, _)
SplitFrom(str, i, piece) ==
    IF i > Len(str) THEN <<piece>>
    ELSE IF str[i] = " " THEN <<piece>> \o SplitFrom(str, i + 1, <<>>)
    ELSE SplitFrom(str, i + 1, Append(piece, str[i]))

Split(str) == SplitFrom(str, 1, <<>>)

\* strings.Join(pieces, " ")
RECURSIVE Join(_)
Join(pieces) ==
    IF Len(pieces) = 0 THEN <<>>
    ELSE IF Len(pieces) = 1 THEN pieces[1]
    ELSE pieces[1] \o <<" ">> \o Join(Tail(pieces))

\* extractScopes: no scope claim or an empty one gives no scope
extractScopes(scope) == IF scope = <<>> THEN <<>> ELSE Split(scope)

\* what can be wrong with a token, in the order Validate finds it
Defects == {"none", "malformed", "nokid", "unknownkid", "jwks", "algorithm",
            "signature", "expired", "issuer", "audience", "notyetvalid", "issuedat"}

Token(defect, sub, scope) == [defect |-> defect, sub |-> sub, scope |-> scope]
NoToken == Token("absent", <<>>, <<>>)

\* Validate: the error, or "" and the claims
Validate(token) ==
    LET fail(e) == [err |-> e, subject |-> <<>>, scopes |-> <<>>] IN
    IF token.defect \in {"malformed", "nokid", "unknownkid"}
        THEN fail("InvalidSignatureError")
    ELSE IF token.defect = "jwks" THEN fail("failed to get key")
    ELSE IF token.defect = "algorithm" THEN fail("InvalidAlgorithmError")
    ELSE IF token.defect = "expired" THEN fail("TokenExpiredError")
    ELSE IF token.defect = "issuer" THEN fail("InvalidIssuerError")
    ELSE IF token.defect = "audience" THEN fail("InvalidAudienceError")
    ELSE IF token.defect = "notyetvalid" THEN fail("token not yet valid")
    \* another claim fails validation: jwt.IsValidationError
    ELSE IF token.defect = "issuedat" THEN fail("InvalidSignatureError")
    \* jwt.Parse cannot verify the signature: not a validation error
    ELSE IF token.defect = "signature" THEN fail("token validation failed")
    ELSE [err |-> "", subject |-> token.sub, scopes |-> extractScopes(token.scope)]

\* -------------------------------------------------------- AuthInterceptor
\* the Authorization header: absent, or a scheme, the character after it
\* and the rest
Header(scheme, space, token) == [scheme |-> scheme, space |-> space, token |-> token]
NoHeader == Header("", FALSE, NoToken)

ToLowerScheme(scheme) == IF scheme \in {"Bearer", "BEARER", "bearer"} THEN "bearer" ELSE scheme

\* extractBearerToken
extractBearerToken(header) ==
    IF header = NoHeader THEN [err |-> TRUE, token |-> NoToken]
    ELSE IF ToLowerScheme(header.scheme) # "bearer" THEN [err |-> TRUE, token |-> NoToken]
    ELSE IF ~header.space THEN [err |-> TRUE, token |-> NoToken]
    ELSE IF header.token = NoToken THEN [err |-> TRUE, token |-> NoToken]
    ELSE [err |-> FALSE, token |-> header.token]

AuthScopes == {<<>>, ScopeAdmin}
GoodToken == Token("none", <<"u">>, <<>>)

\* every defect once, and the sound tokens with every subject (the empty
\* one too) and scope
Tokens ==
    {Token(d, <<"u">>, <<>>) : d \in Defects}
        \cup {Token("none", sub, sc) : sub \in Subjects, sc \in AuthScopes}

AuthHeaders ==
    {NoHeader, Header("Basic", TRUE, GoodToken), Header("Bearer", FALSE, GoodToken),
     Header("Bearer", TRUE, NoToken), Header("BEARER", TRUE, GoodToken)}
        \cup {Header("Bearer", TRUE, t) : t \in Tokens}

\* the headers sent in the runs with the rate limiter: none, an expired
\* token, and sound tokens with every subject and with the admin scope
LimiterHeaders ==
    {NoHeader, Header("Bearer", TRUE, Token("expired", <<"u">>, <<>>))}
        \cup {Header("Bearer", TRUE, Token("none", sub, <<>>)) : sub \in Subjects}
        \cup {Header("Bearer", TRUE, Token("none", <<"u">>, ScopeAdmin))}

Request(proc, ip, auth) == [proc |-> proc, ip |-> ip, auth |-> auth]

\* a procedure that no configuration names, and one that some do
ProtectedProc == <<"/">>
PublicProc == <<"/", "a">>

\* every header on a protected procedure, and requests to a public one
AuthRequests ==
    {Request(ProtectedProc, "ip1", a) : a \in LimiterHeaders}
        \cup {Request(PublicProc, "ip1", a) :
                    a \in {NoHeader, Header("Bearer", TRUE, GoodToken)}}
        \cup {Request(ProtectedProc, "ip2", NoHeader)}

\* every procedure, with and without a sound token
PublicRequests ==
    {Request(p, "ip1", a) : p \in Procedures,
                            a \in {NoHeader, Header("Bearer", TRUE, GoodToken)}}

\* categorizeValidationError: the reason written to the log
categorizeValidationError(err) ==
    IF err = "TokenExpiredError" THEN "token_expired"
    ELSE IF err = "InvalidIssuerError" THEN "invalid_issuer"
    ELSE IF err = "InvalidAudienceError" THEN "invalid_audience"
    ELSE IF err = "InvalidSignatureError" THEN "invalid_signature"
    ELSE IF err = "InvalidAlgorithmError" THEN "invalid_algorithm"
    ELSE "validation_failed"

\* newUnauthenticatedError: connect.NewError(CodeUnauthenticated, nil) with the
\* WWW-Authenticate header
newUnauthenticatedError ==
    [code |-> "unauthenticated", message |-> "", wwwAuthenticate |-> "Bearer"]

FailureResponseWithReason(reason) == [newUnauthenticatedError EXCEPT !.message = reason]

\* the failure paths: recordFailureAndLog(..., reason), then
\* return nil, newUnauthenticatedError()
FailureResponse(reason) == newUnauthenticatedError

\* part_002 294-342 up to the outcome of validation: the public check, the
\* rate limit check, extractBearerToken and Validate
AuthStart(h, r) ==
    /\ conn[h].pc = "idle"
    /\ LET ev == [NoOut EXCEPT !.h = h, !.ip = r.ip, !.proc = r.proc]
           tok == extractBearerToken(r.auth)
           v == Validate(tok.token) IN
        IF IsPublic(publicEndpoints, r.proc) THEN
            /\ conn' = [conn EXCEPT ![h] = [ConnIdle EXCEPT !.pc = "next", !.ip = r.ip,
                                                           !.public = TRUE]]
            /\ out' = [ev EXCEPT !.kind = "public"]
        ELSE IF IsRateLimited(limiter, r.ip, clock) THEN
            /\ conn' = conn
            /\ out' = [ev EXCEPT !.kind = "response", !.code = "resource_exhausted"]
        ELSE IF tok.err THEN
            /\ conn' = [conn EXCEPT ![h] = [ConnIdle EXCEPT !.pc = "record", !.ip = r.ip,
                                                           !.reason = "missing_token"]]
            /\ out' = [ev EXCEPT !.kind = "auth", !.extracted = TRUE]
        ELSE IF v.err # "" THEN
            /\ conn' = [conn EXCEPT ![h] = [ConnIdle EXCEPT !.pc = "record", !.ip = r.ip,
                                    !.reason = categorizeValidationError(v.err)]]
            /\ out' = [ev EXCEPT !.kind = "auth", !.extracted = TRUE, !.validated = TRUE]
        ELSE
            /\ conn' = [conn EXCEPT ![h] = [ConnIdle EXCEPT !.pc = "next", !.ip = r.ip,
                            !.identity = TRUE, !.subject = v.subject,
                            !.scopes = Join(v.scopes)]]
            /\ out' = [ev EXCEPT !.kind = "auth", !.extracted = TRUE, !.validated = TRUE]
    /\ UNCHANGED <<coreVars, jwks, noReaper, http, proxy, clock, limiter, recent, publicEndpoints>>

\* recordFailureAndLog and the UNAUTHENTICATED response
AuthRecord(h) ==
    /\ conn[h].pc = "record"
    /\ LET r == RecordFailure(limiter, conn[h].ip, clock)
           resp == FailureResponse(conn[h].reason) IN
        /\ limiter' = r.state
        /\ out' = [NoOut EXCEPT !.kind = "response", !.h = h, !.ip = conn[h].ip,
                                !.code = resp.code, !.message = resp.message,
                                !.wwwAuthenticate = resp.wwwAuthenticate,
                                !.reason = conn[h].reason, !.limited = r.limited]
    /\ recent' = [recent EXCEPT ![conn[h].ip] = Append(Within(@, clock), clock)]
    /\ conn' = [conn EXCEPT ![h] = ConnIdle]
    /\ UNCHANGED <<coreVars, jwks, noReaper, http, proxy, clock, publicEndpoints>>

\* next(ctx, req): the handler runs with the request context
AuthNext(h) ==
    /\ conn[h].pc = "next"
    /\ out' = [NoOut EXCEPT !.kind = "handler", !.h = h, !.ip = conn[h].ip,
                            !.subject = conn[h].subject, !.scopes = conn[h].scopes]
    /\ conn' = [conn EXCEPT ![h] = ConnIdle]
    /\ UNCHANGED <<coreVars, jwks, noReaper, http, proxy, clock, limiter, recent, publicEndpoints>>

\* time passes at the BFF
ClockTick ==
    /\ clock < MaxClock
    /\ clock' = clock + 1
    /\ recent' = [ip \in IPs |-> Within(recent[ip], clock + 1)]
    /\ out' = NoOut
    /\ UNCHANGED <<coreVars, jwks, noReaper, http, proxy, limiter, conn, publicEndpoints>>

\* the cleanup goroutine's ticker fires
CleanupTick ==
    /\ limiter' = Cleanup(limiter, clock)
    /\ out' = NoOut
    /\ UNCHANGED <<coreVars, jwks, noReaper, http, proxy, clock, conn, recent, publicEndpoints>>

\* --------------------------------------------------------------- SpecAuth
\* requests on two connections through the AuthInterceptor and its
\* RateLimiter, with one public endpoint configured
InitAuth == CoreInit /\ BffInitWith({PublicProc})

NextAuth ==
    \/ \E h \in Conns, r \in AuthRequests : AuthStart(h, r)
    \/ \E h \in Conns : AuthRecord(h)
    \/ \E h \in Conns : AuthNext(h)
    \/ ClockTick
    \/ CleanupTick

SpecAuth == InitAuth /\ [][NextAuth]_vars

\* ------------------------------------------------------------- SpecPublic
\* requests for every procedure name under every public endpoint
\* configuration
InitPublic == CoreInit /\ \E e \in PublicConfigs : BffInitWith(e)

NextPublic ==
    \/ \E r \in PublicRequests : AuthStart("h1", r)
    \/ AuthRecord("h1")
    \/ AuthNext("h1")

SpecPublic == InitPublic /\ [][NextPublic]_vars

\* ------------------------------------------------- claims on the interceptor
\* the connection whose request the handler receives in this step
Reaches(h) == conn[h].pc = "next" /\ out'.kind = "handler" /\ out'.h = h

\* C12: every request that the AuthInterceptor lets reach the handler is for
\* a configured public endpoint, or token validation produced an identity
\* with a non-empty subject and the handler observes that subject.
C12_AcceptedHasSubject ==
    [][\A h \in Conns :
        Reaches(h) =>
            \/ conn[h].public
            \/ /\ conn[h].identity
               /\ conn[h].subject # <<>>
               /\ out'.subject = conn[h].subject]_vars

\* the step is a RecordFailure call for ip
Records(ip) ==
    /\ \E h \in Conns : conn[h].pc = "record" /\ conn[h].ip = ip /\ conn'[h].pc = "idle"
    /\ out'.kind = "response" /\ out'.code = "unauthenticated" /\ out'.ip = ip

\* ip is not rate-limited before the step and is rate-limited after it
Enters(ip) == ~IsRateLimited(limiter, ip, clock) /\ IsRateLimited(limiter', ip, clock')

\* C13: an IP becomes rate-limited only through a RecordFailure call at which
\* the failure count is at least the threshold and counts only failures
\* recorded within one window since window-start, and at that moment
\* cooldown-until = now + cooldown > now; failures older than the window
\* never count toward the threshold.
C13_LimitedOnlyByThreshold ==
    [][\A ip \in IPs :
        Enters(ip) =>
            /\ Records(ip)
            /\ limiter'[ip].failureCount >= FailureThreshold
            /\ limiter'[ip].failureCount <= Len(recent'[ip])
            /\ clock - limiter'[ip].windowStart <= Window
            /\ limiter'[ip].cooldownUntil = clock + Cooldown
            /\ limiter'[ip].cooldownUntil > clock]_vars

\* a RecordFailure call has just put an IP into cooldown, with failures
\* spread over a whole window that did not start with the first clock value
C13_Witness ==
    /\ out.kind = "response" /\ out.limited
    /\ IsRateLimited(limiter, out.ip, clock)
    /\ limiter[out.ip].failureCount = FailureThreshold
    /\ limiter[out.ip].windowStart > 1
    /\ clock - limiter[out.ip].windowStart = Window
    /\ limiter[out.ip].cooldownUntil = clock + Cooldown

\* C14: RecordFailure(ip) returns true only on the call that moves the IP
\* from not rate-limited to rate-limited: among concurrent failures against
\* one IP, one call returns true per entry into cooldown.
C14_TrueOnlyOnTransition ==
    [][\A ip \in IPs :
        (Records(ip) /\ out'.limited) => Enters(ip)]_vars

\* ip is in its cooldown at the current time
InCooldown(ip) == limiter[ip].cooldownUntil > clock

\* the step takes a new request from ip for a procedure that is not public
Arrives(ip) ==
    /\ \E h \in Conns : conn[h].pc = "idle" /\ out'.h = h
    /\ out'.ip = ip
    /\ out'.kind \in {"auth", "response"}
    /\ out'.kind = "response" => out'.code = "resource_exhausted"

\* the failures of ip recorded since the start of its current window
SinceWindowStart(ip) ==
    SelectSeq(recent'[ip], LAMBDA x : x >= limiter'[ip].windowStart)

\* C15: with threshold N, N failed requests to protected endpoints from one
\* IP within the window each return UNAUTHENTICATED and leave the IP in
\* cooldown, and every later request from that IP during the cooldown
\* returns RESOURCE_EXHAUSTED without extracting a token, invoking the
\* validator or calling the handler.
C15_FailuresThenExhausted ==
    [][\A ip \in IPs :
        /\ Records(ip) =>
              /\ out'.code = "unauthenticated"
              /\ Len(SinceWindowStart(ip)) >= FailureThreshold =>
                    limiter'[ip].cooldownUntil > clock
        /\ (Arrives(ip) /\ InCooldown(ip)) =>
              /\ out'.kind = "response" /\ out'.code = "resource_exhausted"
              /\ ~out'.extracted /\ ~out'.validated
              /\ conn' = conn]_vars

\* a request from an IP with N failures in its window has just been answered
\* RESOURCE_EXHAUSTED during the cooldown
C15_Witness ==
    /\ out.kind = "response" /\ out.code = "resource_exhausted"
    /\ InCooldown(out.ip)
    /\ limiter[out.ip].failureCount = FailureThreshold
    /\ Len(recent[out.ip]) = FailureThreshold

\* ------------------------------------------- claims on the public endpoints
\* two strings are equal character for character
SameString(a, b) == Len(a) = Len(b) /\ \A i \in 1..Len(a) : a[i] = b[i]

\* the step takes a new request on connection h
Enter(h) == conn[h].pc = "idle" /\ out'.kind # "none" /\ out'.h = h

\* the request taken on h goes to the handler without authentication
Bypasses(h) ==
    /\ out'.kind = "public"
    /\ conn'[h].pc = "next" /\ conn'[h].public /\ ~conn'[h].identity

\* C20: a request bypasses authentication if and only if its procedure is
\* character-for-character equal to a configured public endpoint; a proper
\* prefix, an extension or the name without its leading slash never
\* bypasses, and with an empty configuration no request bypasses.
C20_ExactMatchOnly ==
    [][\A h \in Conns :
        Enter(h) =>
            (Bypasses(h) <=> \E e \in publicEndpoints : SameString(e, out'.proc))]_vars

\* a request whose procedure extends a configured public endpoint has been
\* sent on to authentication
C20_Witness ==
    /\ out.kind = "auth"
    /\ \E e \in publicEndpoints : IsPrefixOf(e, out.proc) /\ Len(e) < Len(out.proc)
    /\ out.proc \notin publicEndpoints

\* ---------------------------------------------------------- HeaderSanitizer
authVars == <<clock, limiter, conn, recent, publicEndpoints, out>>

\* the letters header names are written with, in lower and upper case
Letters == <<"a", "c", "i", "r", "s", "t", "u", "x">>
Capitals == <<"A", "C", "I", "R", "S", "T", "U", "X">>

ToLowerChar(c) ==
    IF \E i \in 1..Len(Capitals) : Capitals[i] = c
    THEN Letters[CHOOSE i \in 1..Len(Capitals) : Capitals[i] = c] ELSE c

ToUpperChar(c) ==
    IF \E i \in 1..Len(Letters) : Letters[i] = c
    THEN Capitals[CHOOSE i \in 1..Len(Letters) : Letters[i] = c] ELSE c

ToLowerKeepsCase(s) == s

\* strings.ToLower
ToLower(s) == [i \in 1..Len(s) |-> ToLowerChar(s[i])]

\* textproto.CanonicalMIMEHeaderKey: the first letter and every letter after
\* a hyphen in upper case, the others in lower case
CanonicalMIMEHeaderKey(s) ==
    [i \in 1..Len(s) |->
        IF i = 1 \/ s[i - 1] = "-" THEN ToUpperChar(s[i]) ELSE ToLowerChar(s[i])]

\* header names, each shortened to x- and two letters: x-user-id is x-ui,
\* x-scopes x-sc, x-request-id x-ri, x-user-role x-ur, x-tenant-id x-ti
MetadataUserID == <<"x", "-", "u", "i">>
MetadataScopes == <<"x", "-", "s", "c">>
MetadataRequestID == <<"x", "-", "r", "i">>
HeaderUserRole == <<"x", "-", "u", "r">>
HeaderTenantID == <<"x", "-", "t", "i">>
\* a header no configuration names
HeaderOther == <<"x", "-", "a", "a">>

\* Config.HeadersToSanitize
HeadersToSanitize == {MetadataUserID, MetadataScopes, HeaderUserRole, HeaderTenantID}

\* the headers ClientPropagatorInterceptor writes to downstream requests
Propagated == {MetadataUserID, MetadataScopes, MetadataRequestID}

\* NewHeaderSanitizer: the names in lower case
NewHeaderSanitizer(headers) == {ToLower(h) : h \in headers}

\* the spellings of a name that differ in the case of its letters
CaseVariants(name) ==
    {[i \in 1..Len(name) |-> IF i \in S THEN ToUpperChar(name[i]) ELSE name[i]] :
        S \in SUBSET (1..Len(name))}

\* the names clients send: the propagated ones and one more
WireNames == UNION {CaseVariants(n) : n \in Propagated \cup {HeaderOther}}
HeaderValues == {"1", "2"}
Field(name, value) == [name |-> name, value |-> value]
MaxHeaders == 2

\* the header fields of a request as the client wrote them
WireRequests ==
    UNION {[1..k -> {Field(n, v) : n \in WireNames, v \in HeaderValues}] : k \in 0..MaxHeaders}

\* the configurations of the sanitizer: none, a name in lower case, a name in
\* upper case, two names, and the BFF's
SanitizerConfigs ==
    {{}, {MetadataUserID}, {[i \in 1..4 |-> ToUpperChar(MetadataScopes[i])]},
     {MetadataUserID, MetadataRequestID}, HeadersToSanitize}

\* the server builds r.Header: the values of each field under its canonical
\* key, in the order received
ReadMIMEHeader(w) ==
    [k \in {CanonicalMIMEHeaderKey(w[i].name) : i \in 1..Len(w)} |->
        LET sel == SelectSeq(w, LAMBDA f : CanonicalMIMEHeaderKey(f.name) = k)
        IN  [i \in 1..Len(sel) |-> sel[i].value]]

\* http.Header.Del
HeaderDel(h, key) ==
    [k \in DOMAIN h \ {CanonicalMIMEHeaderKey(key)} |-> h[k]]

\* http.Header.Values
HeaderValuesOf(h, key) ==
    IF CanonicalMIMEHeaderKey(key) \in DOMAIN h THEN h[CanonicalMIMEHeaderKey(key)] ELSE <<>>

\* the loop of HeaderSanitizer.Middleware over r.Header
RECURSIVE SanitizeKeys(_, _, _)
SanitizeKeys(toRemove, h, keys) ==
    IF keys = {} THEN h
    ELSE LET header == CHOOSE k \in keys : TRUE
             h1 == IF ToLower(header) \in toRemove THEN HeaderDel(h, header) ELSE h
         IN  SanitizeKeys(toRemove, h1, keys \ {header})

\* nothing is removed
MiddlewareKeepsAll(toRemove, h) == h

Middleware(toRemove, h) == SanitizeKeys(toRemove, h, DOMAIN h)

\* the server reads a request from the connection
HttpReceive(w) ==
    /\ http.pc = "idle"
    /\ http' = [http EXCEPT !.pc = "parsed", !.wire = w, !.header = ReadMIMEHeader(w)]
    /\ UNCHANGED <<coreVars, jwks, noReaper, authVars, proxy>>

\* HeaderSanitizer.Middleware: the loop, then next.ServeHTTP(w, r)
SanitizerMiddleware ==
    /\ http.pc = "parsed"
    /\ LET h == Middleware(http.headersToRemove, http.header) IN
        http' = [http EXCEPT !.pc = "served", !.header = h, !.seen = h]
    /\ UNCHANGED <<coreVars, jwks, noReaper, authVars, proxy>>

NextSanitizer ==
    \/ \E w \in WireRequests : HttpReceive(w)
    \/ SanitizerMiddleware

\* ---------------------------------------------------------- SpecSanitizer
\* one request through a HeaderSanitizer built from any configuration
InitSanitizer ==
    /\ CoreInit /\ AuthInit({}) /\ proxy = ProxyIdle /\ RestInit
    /\ \E c \in SanitizerConfigs : http = HttpIdle(c, NewHeaderSanitizer(c))

SpecSanitizer == InitSanitizer /\ [][NextSanitizer]_vars

\* ------------------------------------------------------------ SpecGateway
\* BuildHTTPHandler: one request through the sanitizer built from
\* Config.HeadersToSanitize
InitGateway ==
    /\ CoreInit /\ AuthInit({}) /\ proxy = ProxyIdle /\ RestInit
    /\ http = HttpIdle(HeadersToSanitize, NewHeaderSanitizer(HeadersToSanitize))

SpecGateway == InitGateway /\ [][NextSanitizer]_vars

\* --------------------------------------------------- claims on the sanitizer
\* two names are equal ignoring the case of their letters
EqualFold(a, b) ==
    Len(a) = Len(b) /\ \A i \in 1..Len(a) : ToUpperChar(a[i]) = ToUpperChar(b[i])

\* the values the client sent under a name, in any spelling, in order
SentValues(w, name) ==
    LET sel == SelectSeq(w, LAMBDA f : EqualFold(f.name, name))
    IN  [i \in 1..Len(sel) |-> sel[i].value]

\* the name is one of the configured names, ignoring case
Reserved(name) == \E c \in http.config : EqualFold(name, c)

\* C16: for every inbound request, every header whose name equals a
\* configured reserved name ignoring case is absent when the next handler
\* runs, and every header whose name is not in the configured set reaches
\* the handler unchanged.
C16_ReservedStripped ==
    http.pc = "served" =>
        /\ \A i \in 1..Len(http.wire) :
            LET name == http.wire[i].name IN
            IF Reserved(name)
            THEN \A k \in DOMAIN http.seen : ~EqualFold(k, name)
            ELSE HeaderValuesOf(http.seen, name) = SentValues(http.wire, name)
        /\ \A k \in DOMAIN http.seen :
            \E i \in 1..Len(http.wire) : EqualFold(k, http.wire[i].name)

\* the handler has run for a request with a reserved header written neither
\* in lower case nor in canonical form, and with a header that is not
\* reserved
C16_Witness ==
    /\ http.pc = "served"
    /\ \E i, j \in 1..Len(http.wire) :
        /\ Reserved(http.wire[i].name)
        /\ http.wire[i].name \notin {ToLower(http.wire[i].name),
                                     CanonicalMIMEHeaderKey(http.wire[i].name)}
        /\ ~Reserved(http.wire[j].name)
        /\ HeaderValuesOf(http.seen, http.wire[j].name) = <<http.wire[j].value>>

\* C17: every header the BFF writes to downstream services as propagated
\* context (x-user-id, x-scopes and x-request-id) is removed from every
\* inbound request by the HeaderSanitizer built from the BFF configuration
\* before any handler observes the request.
C17_PropagatedStripped ==
    http.pc = "served" =>
        \A name \in Propagated : HeaderValuesOf(http.seen, name) = <<>>

\* ----------------------------------------------------------------- authz
\* ctx.Value(key) == nil: no string, written as a sequence no string equals
NoValue == <<"absent">>

\* GetUserID, GetScopes: the value in the context, or ""
GetUserID(ctx) == IF ctx.userID = NoValue THEN <<>> ELSE ctx.userID
GetScopes(ctx) == IF ctx.scopes = NoValue THEN <<>> ELSE ctx.scopes

\* strings.Contains(scopes, scope)
HasScopeBySubstring(ctx, scope) ==
    LET scopes == GetScopes(ctx) IN
    \E i \in 1..Len(scopes) : \E j \in i..Len(scopes) : SubSeq(scopes, i, j) = scope

\* HasScope: one of the pieces of strings.Split(scopes, " ") is the scope
HasScope(ctx, scope) ==
    LET scopes == GetScopes(ctx) IN
    IF scopes = <<>> THEN FALSE
    ELSE \E i \in 1..Len(Split(scopes)) : Split(scopes)[i] = scope

\* CanAccessUser: "nil" or the error
CanAccessUser(ctx, targetUserID) ==
    LET currentUserID == GetUserID(ctx) IN
    IF currentUserID = <<>> THEN "unauthenticated"
    ELSE IF HasScope(ctx, ScopeAdmin) THEN "nil"
    ELSE IF currentUserID # targetUserID THEN "permission_denied"
    ELSE "nil"

\* ------------------------------------------------------- UserServiceProxy
MaxScopeLen == 4
Ops == {"GetUser", "UpdateUser", "DeleteUser"}
Ctx(userID, scopes) == [userID |-> userID, scopes |-> scopes]

\* the request contexts: a user id and a scope string, each possibly absent
Contexts ==
    {Ctx(u, s) : u \in Subjects \cup {NoValue},
                 s \in Str(MaxScopeLen, ScopeChars) \cup {NoValue}}

\* what the downstream user service answers
Downstream == {"nil", "not_found", "internal", "deadline", "other"}

\* handleError
handleError(err) ==
    IF err \in {"not_found", "internal"} THEN err
    ELSE IF err = "deadline" THEN "deadline_exceeded"
    ELSE "internal"

ProceedsAlways(err) == TRUE

\* if err := p.authorizer.CanAccessUser(...); err != nil { return nil, err }
Proceeds(err) == err = "nil"

\* GetUser, UpdateUser, DeleteUser up to the downstream call
ProxyCall(op, ctx, id) ==
    /\ proxy.pc = "idle"
    /\ LET err == CanAccessUser(ctx, id)
           p == [ProxyIdle EXCEPT !.op = op, !.userID = ctx.userID,
                                  !.scopes = ctx.scopes, !.target = id, !.authz = err] IN
        proxy' = IF Proceeds(err) THEN [p EXCEPT !.pc = "authorized"]
                 ELSE [p EXCEPT !.pc = "done", !.err = err]
    /\ UNCHANGED <<coreVars, jwks, noReaper, authVars, http>>

\* p.client.GetUser / UpdateUser / DeleteUser and the return
ProxyDownstream(answer) ==
    /\ proxy.pc = "authorized"
    /\ proxy' = [proxy EXCEPT !.pc = "done", !.calls = @ + 1,
                              !.err = IF answer = "nil" THEN "nil" ELSE handleError(answer)]
    /\ UNCHANGED <<coreVars, jwks, noReaper, authVars, http>>

NextProxy ==
    \/ \E op \in Ops, ctx \in Contexts, id \in Subjects : ProxyCall(op, ctx, id)
    \/ \E answer \in Downstream : ProxyDownstream(answer)

\* -------------------------------------------------------------- SpecProxy
\* one call of GetUser, UpdateUser or DeleteUser with every context and
\* target id
InitProxy == CoreInit /\ BffInit

SpecProxy == InitProxy /\ [][NextProxy]_vars

\* ------------------------------------------------ claims on authorization
\* the scope string has the token admin between separators or string ends
HasAdminToken(scopes) ==
    \E i \in 1..Len(scopes) :
        LET j == i + Len(ScopeAdmin) - 1 IN
        /\ j <= Len(scopes)
        /\ \A k \in 1..Len(ScopeAdmin) : scopes[i + k - 1] = ScopeAdmin[k]
        /\ i = 1 \/ scopes[i - 1] = " "
        /\ j = Len(scopes) \/ scopes[j + 1] = " "

\* the decision the rule prescribes
Decision(current, target, scopes) ==
    IF current = <<>> THEN "unauthenticated"
    ELSE IF HasAdminToken(scopes) THEN "nil"
    ELSE IF current = target THEN "nil"
    ELSE "permission_denied"

\* C18: CanAccessUser decides, for every (current subject, target subject,
\* scope string): UNAUTHENTICATED if the current subject is empty; otherwise
\* allow if the space-separated scopes contain exactly the token admin;
\* otherwise allow iff current equals target; otherwise PERMISSION_DENIED.
\* No scope other than the literal admin grants cross-subject access.
C18_AccessDecision ==
    proxy.pc # "idle" =>
        LET ctx == Ctx(proxy.userID, proxy.scopes) IN
        /\ proxy.authz = Decision(GetUserID(ctx), proxy.target, GetScopes(ctx))
        /\ (proxy.authz = "nil" /\ GetUserID(ctx) # proxy.target) =>
                HasAdminToken(GetScopes(ctx))

\* access to another subject was allowed to a context whose scope string
\* holds another scope and then the token admin
C18_Witness ==
    /\ proxy.pc # "idle" /\ proxy.authz = "nil"
    /\ proxy.userID \notin {NoValue, <<>>, proxy.target}
    /\ proxy.scopes # NoValue /\ Len(proxy.scopes) = MaxScopeLen
    /\ proxy.scopes[1] # " "
    /\ SubSeq(proxy.scopes, MaxScopeLen - 1, MaxScopeLen) = ScopeAdmin

\* C19: for GetUser, UpdateUser and DeleteUser the downstream user service
\* is called only after CanAccessUser allowed the request for the target
\* id; when authorization returns UNAUTHENTICATED or PERMISSION_DENIED that
\* error is returned and no downstream call is made.
C19_DownstreamOnlyIfAllowed ==
    /\ proxy.calls > 0 =>
          /\ proxy.authz = "nil"
          /\ Decision(GetUserID(Ctx(proxy.userID, proxy.scopes)), proxy.target,
                      GetScopes(Ctx(proxy.userID, proxy.scopes))) = "nil"
    /\ proxy.authz \in {"unauthenticated", "permission_denied"} =>
          proxy.pc = "done" /\ proxy.err = proxy.authz /\ proxy.calls = 0
    /\ proxy.pc = "authorized" => proxy.authz = "nil" /\ proxy.calls = 0

\* a call was refused PERMISSION_DENIED and returned without a downstream
\* call, for a user asking for another user's id
C19_Witness ==
    /\ proxy.pc = "done" /\ proxy.op \in Ops
    /\ proxy.err = "permission_denied" /\ proxy.calls = 0
    /\ proxy.userID # proxy.target

\* ------------------------------------------------------------ SpecValidator
\* the type predicates: errors.As to the error type
IsTokenExpiredError(err) == err = "TokenExpiredError"
IsInvalidIssuerError(err) == err = "InvalidIssuerError"
IsInvalidAudienceError(err) == err = "InvalidAudienceError"
IsInvalidSignatureError(err) == err = "InvalidSignatureError"
IsInvalidAlgorithmError(err) == err = "InvalidAlgorithmError"

\* tokens with every defect, subject and scope string of up to two characters
ValidatorTokens ==
    {Token(d, sub, sc) : d \in Defects, sub \in Subjects, sc \in Str(2, ScopeChars)}

\* one call of Validate
ValidateCall(token) ==
    /\ out.kind = "none"
    /\ LET v == Validate(token) IN
        out' = [kind |-> "validate", token |-> token, err |-> v.err,
                subject |-> v.subject, scopes |-> v.scopes]
    /\ UNCHANGED <<coreVars, jwks, noReaper, clock, limiter, conn, recent, publicEndpoints, http, proxy>>

InitValidator == CoreInit /\ BffInit

NextValidator == \E token \in ValidatorTokens : ValidateCall(token)

SpecValidator == InitValidator /\ [][NextValidator]_vars

\* C21: every error returned by Validate is one of the typed failure kinds,
\* recognisable by a public type predicate; no validation failure (bad
\* signature, nbf in the future, key fetch error) is an untyped error.
C21_ErrorsTyped ==
    (out.kind = "validate" /\ out.err # "") =>
        \/ IsTokenExpiredError(out.err)
        \/ IsInvalidIssuerError(out.err)
        \/ IsInvalidAudienceError(out.err)
        \/ IsInvalidSignatureError(out.err)
        \/ IsInvalidAlgorithmError(out.err)

\* ------------------------------------------------------------- JWKSManager
MinRefreshInterval == 2
Kids == {"k1", "k2"}
KeySets == SUBSET Kids \ {{}}
Reqs == {"g1", "g2"}

\* a GetKey call that has not started
GetKeyIdle == [pc |-> "idle", kid |-> "none", refreshes |-> 0, lookups |-> 0,
               throttled |-> FALSE, refreshErr |-> "none", found |-> FALSE,
               result |-> "none"]

\* NewJWKSManager: the initial fetch, lastRefresh = time.Now(), healthy; lastFetch
\* is the time of the last fetch made through Refresh (0: none yet); closed is
\* history: Close has been called
NewJWKSManager(set, t) ==
    [pc |-> "ready", cache |-> set, remote |-> set, lastRefresh |-> t, healthy |-> TRUE,
     lastFetch |-> 0, req |-> [r \in Reqs |-> GetKeyIdle], closed |-> FALSE]

\* Refresh under refreshMu: throttled inside the interval, else cache.Refresh,
\* which succeeds or fails
Refresh(j, t, fetchOk) ==
    IF t - j.lastRefresh < MinRefreshInterval
    THEN [err |-> "nil", fetched |-> FALSE, j |-> j]
    ELSE IF fetchOk
    THEN [err |-> "nil", fetched |-> TRUE,
          j |-> [j EXCEPT !.cache = j.remote, !.lastRefresh = t, !.healthy = TRUE,
                          !.lastFetch = t]]
    ELSE [err |-> "failed to refresh JWKS", fetched |-> TRUE,
          j |-> [j EXCEPT !.healthy = FALSE, !.lastFetch = t]]

\* what a step of the manager shows
JwksOut(kind, r, err, fetched) ==
    [kind |-> kind, r |-> r, err |-> err, fetched |-> fetched]

jwksRest == <<coreVars, clock, limiter, conn, recent, publicEndpoints, http, proxy, noReaper>>

\* the identity provider rotates its keys
IdPRotate(set) ==
    /\ jwks.remote # set
    /\ jwks' = [jwks EXCEPT !.remote = set]
    /\ out' = NoOut
    /\ UNCHANGED jwksRest

\* jwk.Cache refreshes on its own schedule
CacheScheduledRefresh ==
    /\ jwks.cache # jwks.remote
    /\ jwks' = [jwks EXCEPT !.cache = jwks.remote]
    /\ out' = NoOut
    /\ UNCHANGED jwksRest

\* GetKey: cache.Get and the first LookupKeyID
GetKeyStart(r, kid, getOk) ==
    /\ jwks.req[r].pc = "idle"
    /\ LET call0 == [GetKeyIdle EXCEPT !.kid = kid] IN
        IF ~getOk THEN
            jwks' = [jwks EXCEPT !.healthy = FALSE,
                        !.req[r] = [call0 EXCEPT !.pc = "done", !.result = "failed to get JWKS"]]
        ELSE IF kid \in jwks.cache THEN
            jwks' = [jwks EXCEPT !.healthy = TRUE,
                        !.req[r] = [call0 EXCEPT !.pc = "done", !.lookups = 1,
                                                 !.found = TRUE, !.result = "key"]]
        ELSE
            jwks' = [jwks EXCEPT !.req[r] = [call0 EXCEPT !.pc = "refresh", !.lookups = 1]]
    /\ out' = JwksOut("getkey", r, "nil", FALSE)
    /\ UNCHANGED jwksRest

RetryAlways(err) == TRUE

\* if err := m.Refresh(ctx); err == nil { ... second lookup ... }
RetryAfterRefresh(err) == err = "nil"

\* GetKey: m.Refresh(ctx) for the unknown kid
GetKeyRefresh(r, fetchOk) ==
    /\ jwks.req[r].pc = "refresh"
    /\ LET res == Refresh(jwks, clock, fetchOk)
           call1 == [jwks.req[r] EXCEPT !.refreshes = @ + 1,
                                        !.throttled = ~res.fetched] IN
        /\ jwks' = [res.j EXCEPT !.req[r] =
                        IF RetryAfterRefresh(res.err)
                        THEN [call1 EXCEPT !.pc = "retry", !.refreshErr = res.err]
                        ELSE [call1 EXCEPT !.pc = "done", !.refreshErr = res.err,
                                           !.result = "KeyNotFoundError"]]
        /\ out' = JwksOut("refresh", r, res.err, res.fetched)
    /\ UNCHANGED jwksRest

\* GetKey: the second cache.Get and LookupKeyID, and the return
GetKeyRetry(r, getOk) ==
    /\ jwks.req[r].pc = "retry"
    /\ LET call1 == [jwks.req[r] EXCEPT !.pc = "done"] IN
        IF getOk /\ jwks.req[r].kid \in jwks.cache THEN
            jwks' = [jwks EXCEPT !.healthy = TRUE,
                        !.req[r] = [call1 EXCEPT !.lookups = @ + 1, !.found = TRUE,
                                                 !.result = "key"]]
        ELSE
            jwks' = [jwks EXCEPT !.req[r] =
                        [call1 EXCEPT !.lookups = IF getOk THEN @ + 1 ELSE @,
                                      !.result = "KeyNotFoundError"]]
    /\ out' = JwksOut("getkey", r, "nil", FALSE)
    /\ UNCHANGED jwksRest

\* the caller of GetKey goes on
GetKeyReturn(r) ==
    /\ jwks.req[r].pc = "done"
    /\ jwks' = [jwks EXCEPT !.req[r] = GetKeyIdle]
    /\ out' = NoOut
    /\ UNCHANGED jwksRest

\* a direct call of Refresh
RefreshCall(fetchOk) ==
    /\ LET res == Refresh(jwks, clock, fetchOk) IN
        /\ jwks' = res.j
        /\ out' = JwksOut("refresh", "direct", res.err, res.fetched)
    /\ UNCHANGED jwksRest

\* time passes
JwksTick ==
    /\ clock < MaxClock
    /\ clock' = clock + 1
    /\ out' = NoOut
    /\ UNCHANGED <<coreVars, limiter, conn, recent, publicEndpoints, http, proxy,
                   jwks, noReaper>>

\* ---------------------------------------------------------------- SpecJwks
\* two concurrent GetKey calls, direct Refresh calls, key rotation at the
\* identity provider and the cache's own refresh
InitJwks ==
    /\ CoreInit /\ AuthInit({}) /\ http = HttpIdle({}, {}) /\ proxy = ProxyIdle
    /\ noReaper = NoLimiter
    /\ jwks = NewJWKSManager({"k1"}, clock)

NextJwks ==
    \/ \E set \in KeySets : IdPRotate(set)
    \/ CacheScheduledRefresh
    \/ \E r \in Reqs, kid \in Kids, getOk \in BOOLEAN : GetKeyStart(r, kid, getOk)
    \/ \E r \in Reqs, fetchOk \in BOOLEAN : GetKeyRefresh(r, fetchOk)
    \/ \E r \in Reqs, getOk \in BOOLEAN : GetKeyRetry(r, getOk)
    \/ \E r \in Reqs : GetKeyReturn(r)
    \/ \E fetchOk \in BOOLEAN : RefreshCall(fetchOk)
    \/ JwksTick

SpecJwks == InitJwks /\ [][NextJwks]_vars

\* C22: between any two remote key-set fetches issued through Refresh at
\* least minRefreshInterval elapses; a Refresh call inside the window
\* performs no fetch and returns success.
C22_FetchesSpaced ==
    [][(out'.kind = "refresh" /\ jwks.lastFetch # 0
            /\ clock - jwks.lastFetch < MinRefreshInterval) =>
        (~out'.fetched /\ out'.err = "nil")]_vars

\* the GetKey calls that have returned after missing the key at first
Missed(r) == jwks.req[r].pc = "done" /\ jwks.req[r].refreshes > 0

\* C23: a GetKey call for a key id missing from the cached set makes at
\* most one Refresh attempt and at most one further lookup; if the key is
\* found at that lookup it is returned, and if it is still missing, or the
\* refresh failed, the call returns KeyNotFoundError without further
\* retries.
C23_OneRefreshOneRetry ==
    \A r \in Reqs :
        /\ jwks.req[r].refreshes <= 1
        /\ jwks.req[r].lookups <= jwks.req[r].refreshes + 1
        /\ Missed(r) =>
            /\ jwks.req[r].result \in {"key", "KeyNotFoundError"}
            /\ jwks.req[r].result = "key" <=> jwks.req[r].found
            /\ jwks.req[r].refreshErr # "nil" =>
                    jwks.req[r].lookups = 1 /\ jwks.req[r].result = "KeyNotFoundError"

\* a call missed the key, refreshed with a fetch and found the key at its one
\* further lookup, while another call's refresh failed and it returned
\* KeyNotFoundError
C23_Witness ==
    \E r, q \in Reqs :
        /\ Missed(r) /\ jwks.req[r].result = "key" /\ jwks.req[r].lookups = 2
        /\ ~jwks.req[r].throttled
        /\ Missed(q) /\ jwks.req[q].result = "KeyNotFoundError"
        /\ jwks.req[q].refreshErr # "nil"

\* C23 as stated: a call whose refresh was throttled returns
\* KeyNotFoundError
C23_ThrottledIsTerminal ==
    \A r \in Reqs :
        (Missed(r) /\ (jwks.req[r].throttled \/ jwks.req[r].refreshErr # "nil")) =>
            jwks.req[r].result = "KeyNotFoundError"

\* ----------------------------------------------------------- SpecFailures
\* one connection sending every kind of Authorization header to a
\* protected procedure
FailureRequests == {Request(ProtectedProc, "ip1", a) : a \in AuthHeaders}

NextFailures ==
    \/ \E r \in FailureRequests : AuthStart("h1", r)
    \/ AuthRecord("h1")
    \/ AuthNext("h1")
    \/ ClockTick

SpecFailures == InitAuth /\ [][NextFailures]_vars

\* the reasons the failure paths can log
Reasons ==
    {"missing_token", "token_expired", "invalid_issuer", "invalid_audience",
     "invalid_signature", "invalid_algorithm", "validation_failed"}

\* C24: whatever the reason for which authentication failed, the client gets
\* the same error: code UNAUTHENTICATED, no message, and the header
\* WWW-Authenticate: Bearer
C24_SameOpaqueError ==
    (out.kind = "response" /\ out.reason \in Reasons) =>
        /\ out.code = "unauthenticated"
        /\ out.message = ""
        /\ out.wwwAuthenticate = "Bearer"

\* a token with a bad signature has been answered
C24_Witness ==
    /\ out.kind = "response"
    /\ out.reason = "validation_failed"
    /\ out.code = "unauthenticated"
    /\ out.message = ""

\* toConnectError: the Connect code of a domain error of ConfirmReservation
toConnectError(err) ==
    IF err = "ErrReservationNotFound" THEN "not_found"
    ELSE IF err = "ErrReservationExpired" THEN "aborted"
    ELSE IF err = "ErrReservationNotPending" THEN "failed_precondition"
    ELSE "internal"

\* the reservation a ConfirmReservation call has just been refused for by
\* reservation.Confirm()
Refused ==
    /\ ret.op = "confirm"
    /\ ret.rid \in 1..Len(reservations)
    /\ ret.err \in {"ErrReservationExpired", "ErrReservationNotPending"}

\* C25: a confirm of a reservation that is not PENDING is refused with
\* ReservationNotPending (FAILED_PRECONDITION), and ReservationExpired
\* (ABORTED) is returned only for a PENDING reservation past its expires-at
C25_RefusalByStatus ==
    Refused =>
        /\ (reservations[ret.rid].status # ReservationStatusPending =>
                /\ ret.err = "ErrReservationNotPending"
                /\ toConnectError(ret.err) = "failed_precondition")
        /\ (toConnectError(ret.err) = "aborted" =>
                /\ reservations[ret.rid].status = ReservationStatusPending
                /\ IsExpired(reservations[ret.rid], now))

\* ------------------------------------------------------------ SpecMarkers
\* ConfirmReservation and ReleaseReservation called with the idempotency key
\* by two callers on reservations that are PENDING at the start, and the
\* expiry of the markers
NextMarkers ==
    \/ \E c \in Clients, rid \in 1..MaxRes : ConfirmReservationStart(c, rid, Key)
    \/ \E c \in Clients : ConfirmReservationFind(c)
    \/ \E c \in Clients : ConfirmReservationItem(c)
    \/ \E c \in Clients : ConfirmReservationStatus(c)
    \/ \E c \in Clients : ConfirmReservationMark(c)
    \/ \E c \in Clients, rid \in 1..MaxRes : ReleaseReservationStart(c, rid, Key)
    \/ \E c \in Clients : ReleaseReservationFind(c)
    \/ \E c \in Clients : ReleaseReservationItem(c)
    \/ \E c \in Clients : ReleaseReservationStatus(c)
    \/ \E c \in Clients : ReleaseReservationMark(c)
    \/ \E k \in {ConfirmKey(Key), ReleaseKey(Key)} : KeyExpires(k)

SpecMarkers == InitExpire /\ [][NextMarkers]_vars

\* client c makes a keyed call of `op` at this step: it is answered at once
\* (Answered) or goes on to FindByID
Answered(c, op) ==
    /\ call[c].pc = "idle"
    /\ call'[c].pc = "idle"
    /\ ret'.c = c
    /\ ret'.op = op
    /\ ret'.key = Key
GoesOn(c, op) ==
    /\ call[c].pc = "idle"
    /\ call'[c].pc = "find"
    /\ call'[c].op = op
Calls(c, op) == Answered(c, op) \/ GoesOn(c, op)

MarkerOf(op) == IF op = "confirm" THEN "confirm:K" ELSE "release:K"

\* C26: while the marker of an operation is present (it is written only by a
\* call of that operation that succeeded), a repeated call with the key
\* returns success and changes neither inventory nor reservations; a call
\* whose own marker is absent is not answered from the other operation's
\* marker
C26_MarkedRepeatIsNoOp ==
    [][\A c \in Clients, op \in {"confirm", "release"} :
        /\ (Calls(c, op) /\ kv[MarkerOf(op)] # Absent) =>
                /\ Answered(c, op)
                /\ ret'.err = "ok"
                /\ inventory' = inventory
                /\ reservations' = reservations
        /\ (Calls(c, op) /\ kv[MarkerOf(op)] = Absent) => GoesOn(c, op)
        /\ (kv[MarkerOf(op)] = Absent /\ kv'[MarkerOf(op)] # Absent) =>
                /\ ret'.op = op
                /\ ret'.key = Key
                /\ ret'.err = "ok"]_vars

\* a repeated confirm has been answered from the marker
C26_Witness ==
    /\ kv["confirm:K"] = Done
    /\ ret.op = "confirm"
    /\ ret.key = Key
    /\ ret.err = "ok"
    /\ reservations[ret.rid].status = ReservationStatusConfirmed
    /\ \A c \in Clients : call[c].pc = "idle"

\* a release goes on to load the reservation although the confirm marker of
\* the same key is present
C26_SeparateWitness ==
    /\ kv["confirm:K"] = Done
    /\ kv["release:K"] = Absent
    /\ \E c \in Clients : call[c].pc = "find" /\ call[c].op = "release"

\* the reservation that c's call at this step names
CalledFor(c) == IF call'[c].pc = "find" THEN call'[c].rid ELSE ret'.rid

\* C26 as stated: once a keyed confirm of a reservation has succeeded (it is
\* CONFIRMED and no call is in progress), every further keyed confirm of it
\* returns success
C26_RepeatAlwaysSucceeds ==
    [][\A c \in Clients :
        (/\ \A d \in Clients : call[d].pc = "idle"
         /\ Calls(c, "confirm")
         /\ reservations[CalledFor(c)].status = ReservationStatusConfirmed) =>
            (Answered(c, "confirm") /\ ret'.err = "ok")]_vars

\* C27: the version of an inventory row never decreases; a statement that
\* changes the row adds exactly 1 to it, inside a transaction as well, and a
\* commit publishes the transaction's row; a row whose version is unchanged
\* is unchanged, and a step that returns an error leaves every row as it was
C27_VersionMonotonic ==
    [][\A s \in SKUs :
        /\ inventory'[s].version >= inventory[s].version
        /\ (inventory'[s].version = inventory[s].version) => inventory'[s] = inventory[s]
        /\ (inventory'[s] # inventory[s] /\ \A c \in Clients : tx[c][s] = NoRow) =>
                inventory'[s].version = inventory[s].version + 1
        /\ \A c \in Clients :
            /\ (tx[c][s] # NoRow /\ inventory'[s] # inventory[s]) => inventory'[s] = tx[c][s]
            /\ (tx'[c][s] # NoRow /\ tx'[c][s] # tx[c][s]) =>
                    tx'[c][s].version = TxRow(c, s).version + 1
        /\ (ret'.err \notin {"none", "ok"}) => inventory'[s] = inventory[s]]_vars

\* a row after a reserve, a confirm and a quantity update
C27_Witness ==
    /\ ret.op = "update"
    /\ ret.err = "ok"
    /\ \E s \in SKUs :
        /\ inventory[s].version = NewInventory(InitialStock).version + 3
        /\ inventory[s].quantity < InitialStock

\* ----------------------------------------------------------- SpecShutdown
\* one caller releasing and one expirer whose context is cancelled at any
\* moment; the worker goroutine keeps running, every statement sent gets its
\* answer and time passes
NextShutdown ==
    \/ \E rid \in 1..MaxRes : ReleaseReservationStart("c1", rid, NoKey)
    \/ ReleaseReservationItem("c1")
    \/ ReleaseReservationStatus("c1")
    \/ ExpirerTick("w1")
    \/ ExpirerItem("w1")
    \/ ExpirerStatus("w1")
    \/ Cancel("w1")
    \/ ExpirerStop("w1")
    \/ Tick

SpecShutdown ==
    /\ InitExpire
    /\ [][NextShutdown]_vars
    /\ WF_vars(ReleaseReservationItem("c1"))
    /\ WF_vars(ReleaseReservationStatus("c1"))
    /\ WF_vars(ExpirerTick("w1"))
    /\ WF_vars(ExpirerItem("w1"))
    /\ WF_vars(ExpirerStatus("w1"))
    /\ WF_vars(ExpirerStop("w1"))
    /\ WF_vars(Tick)

\* the releases the expirer has applied
RECURSIVE ExpirerReleases(_, _)
ExpirerReleases(counts, n) ==
    IF n = 0 THEN 0 ELSE counts[n].expirer + ExpirerReleases(counts, n - 1)
RECURSIVE AllExpirerReleases(_)
AllExpirerReleases(n) ==
    IF n = 0 THEN 0
    ELSE ExpirerReleases(relCount[n], Len(relCount[n])) + AllExpirerReleases(n - 1)

\* C28: once the expirer's context is cancelled its Start loop returns, and
\* from the moment it has returned it releases no item and marks no
\* reservation EXPIRED
C28_StopsAfterShutdown ==
    /\ wk["w1"].cancelled ~> (wk["w1"].pc = "stopped")
    /\ [][wk["w1"].pc = "stopped" =>
            /\ wk'["w1"] = wk["w1"]
            /\ AllExpirerReleases(Len(relCount))' = AllExpirerReleases(Len(relCount))
            /\ \A r \in 1..Len(reservations) :
                    reservations'[r].status = ReservationStatusExpired =>
                        reservations[r].status = ReservationStatusExpired]_vars

\* the loop has returned in the middle of a batch: it had released an item,
\* and an expired reservation is still PENDING
C28_Witness ==
    /\ wk["w1"].pc = "stopped"
    /\ AllExpirerReleases(Len(relCount)) > 0
    /\ \E r \in 1..Len(reservations) :
            /\ reservations[r].status = ReservationStatusPending
            /\ IsExpired(reservations[r], now)

\* the failures of ip that still count at the BFF's clock: none without an
\* entry, after the cooldown has run out or after the window has run out
Counted(ip) ==
    IF limiter[ip] = NoState THEN 0
    ELSE IF limiter[ip].cooldownUntil # ZeroTime /\ clock > limiter[ip].cooldownUntil THEN 0
    ELSE IF clock - limiter[ip].windowStart > Window THEN 0
    ELSE limiter[ip].failureCount

\* C29: a request rejected with UNAUTHENTICATED adds exactly one failure to
\* the count of its client IP and touches no other IP's entry, whatever
\* other requests are in progress; a step of a request that is public,
\* authenticated or rejected as rate limited leaves the limiter unchanged
C29_OneFailurePerRejection ==
    [][/\ (out'.kind = "response" /\ out'.code = "unauthenticated") =>
            /\ limiter'[out'.ip] # NoState
            /\ limiter'[out'.ip].failureCount = Counted(out'.ip) + 1
            /\ \A ip \in IPs \ {out'.ip} : limiter'[ip] = limiter[ip]
       /\ (\/ out'.kind \in {"public", "auth", "handler"}
           \/ out'.kind = "response" /\ out'.code = "resource_exhausted") =>
            limiter' = limiter]_vars

\* a rejection has been counted as the second failure of its IP while
\* another rejection for the same IP is still to be recorded
C29_Witness ==
    /\ out.kind = "response"
    /\ out.code = "unauthenticated"
    /\ limiter[out.ip].failureCount = 2
    /\ \E h \in Conns : conn[h].pc = "record" /\ conn[h].ip = out.ip

\* ------------------------------------------------------------- SpecReaper
\* the same timed calls of IsRateLimited and RecordFailure made on two
\* limiters: `limiter`, whose cleanup goroutine runs, and `noReaper`, whose
\* cleanup never runs; out.limited and out.twin are the two results
TwinIsRateLimited(ip) ==
    /\ out' = [NoOut EXCEPT !.kind = "check", !.ip = ip,
                            !.limited = IsRateLimited(limiter, ip, clock),
                            !.twin = IsRateLimited(noReaper, ip, clock)]
    /\ UNCHANGED <<coreVars, jwks, http, proxy, clock, limiter, noReaper, conn, recent,
                   publicEndpoints>>

\* the failures counted in one entry are capped at MaxFailures
MaxFailures == 3

TwinRecordFailure(ip) ==
    /\ limiter[ip].failureCount < MaxFailures
    /\ noReaper[ip].failureCount < MaxFailures
    /\ LET r == RecordFailure(limiter, ip, clock)
           n == RecordFailure(noReaper, ip, clock) IN
        /\ limiter' = r.state
        /\ noReaper' = n.state
        /\ out' = [NoOut EXCEPT !.kind = "record", !.ip = ip,
                                !.limited = r.limited, !.twin = n.limited]
    /\ UNCHANGED <<coreVars, jwks, http, proxy, clock, conn, recent, publicEndpoints>>

NextReaper ==
    \/ \E ip \in IPs : TwinIsRateLimited(ip)
    \/ \E ip \in IPs : TwinRecordFailure(ip)
    \/ CleanupTick
    \/ ClockTick

InitReaper == CoreInit /\ BffInit

SpecReaper == InitReaper /\ [][NextReaper]_vars

\* C30: every call of IsRateLimited and RecordFailure returns with the
\* cleanup goroutine running what it returns without it, and no entry whose
\* cooldownUntil lies in the future is deleted
C30_ReaperUnobservable ==
    /\ [](out.kind \in {"check", "record"} => out.limited = out.twin)
    /\ [][\A ip \in IPs :
            (limiter[ip] # NoState /\ limiter[ip].cooldownUntil > clock) =>
                limiter'[ip] # NoState]_vars

\* a call on an IP whose entry the cleanup has deleted, and the cleanup
\* passing over an entry that is old enough but still cooling down
C30_Witness ==
    /\ out.kind = "check"
    /\ limiter[out.ip] = NoState
    /\ noReaper[out.ip] # NoState
    /\ \E ip \in IPs :
        /\ limiter[ip] # NoState
        /\ clock - limiter[ip].windowStart > Window * 2
        /\ limiter[ip].cooldownUntil > clock

\* C31: every entry of RateLimiter.state has a failure count of at least 0 and
\* a cooldownUntil that is zero (absent) or later than the present time
C31_RecordsWellFormed ==
    \A ip \in IPs :
        limiter[ip] # NoState =>
            /\ limiter[ip].failureCount >= 0
            /\ limiter[ip].cooldownUntil = ZeroTime \/ limiter[ip].cooldownUntil > clock

\* ------------------------------------------------------------ SpecForward
\* http.Header.Set
HeaderSet(h, key, value) ==
    [k \in DOMAIN h \cup {CanonicalMIMEHeaderKey(key)} |->
        IF k = CanonicalMIMEHeaderKey(key) THEN <<value>> ELSE h[k]]

\* ClientPropagatorInterceptor on the header of the outgoing request; no
\* request id is in the modelled context
ClientPropagatorInterceptor(ctx, h) ==
    LET h1 == IF GetUserID(ctx) # <<>> THEN HeaderSet(h, MetadataUserID, GetUserID(ctx)) ELSE h
    IN  IF GetScopes(ctx) # <<>> THEN HeaderSet(h1, MetadataScopes, GetScopes(ctx)) ELSE h1

\* the header of req as the proxy hands it to the generated client: the
\* inbound header, each value as a sequence of characters
RequestHeader(h) == [k \in DOMAIN h |-> [i \in 1..Len(h[k]) |-> <<h[k][i]>>]]

\* the context AuthInterceptor passes on: WithUserID and WithScopes after a
\* validated token, the inbound context for a public procedure
ContextOf(c) == IF c.identity THEN Ctx(c.subject, c.scopes) ELSE Ctx(NoValue, NoValue)

\* UserServiceProxy.CreateUser/GetUser: p.client.X(ctx, req) with the inbound
\* request, through the client's interceptor
ProxyForward(h) ==
    /\ conn[h].pc = "next"
    /\ http.pc = "served"
    /\ http' = [http EXCEPT !.pc = "forwarded",
                    !.sent = ClientPropagatorInterceptor(ContextOf(conn[h]),
                                                         RequestHeader(http.seen))]
    /\ out' = [NoOut EXCEPT !.kind = "forward", !.h = h, !.ip = conn[h].ip,
                            !.subject = conn[h].subject, !.scopes = conn[h].scopes]
    /\ conn' = [conn EXCEPT ![h] = ConnIdle]
    /\ UNCHANGED <<coreVars, jwks, noReaper, proxy, clock, limiter, recent, publicEndpoints>>

\* the names a client forges: x-user-id and x-scopes in lower case, in
\* canonical form and in upper case, and one unreserved name
ForgedNames ==
    UNION {{n, CanonicalMIMEHeaderKey(n), [i \in 1..Len(n) |-> ToUpperChar(n[i])]} :
                n \in {MetadataUserID, MetadataScopes}} \cup {HeaderOther}
ForgedRequests ==
    UNION {[1..k -> {Field(n, v) : n \in ForgedNames, v \in HeaderValues}] : k \in 0..MaxHeaders}

\* requests to the public and to a protected procedure
ForwardRequests ==
    {Request(p, "ip1", a) : p \in {ProtectedProc, PublicProc}, a \in LimiterHeaders}

InitForward ==
    /\ CoreInit /\ AuthInit({PublicProc}) /\ proxy = ProxyIdle /\ RestInit
    /\ http = HttpIdle(HeadersToSanitize, NewHeaderSanitizer(HeadersToSanitize))

NextForward ==
    \/ \E w \in ForgedRequests : HttpReceive(w)
    \/ SanitizerMiddleware
    \/ \E r \in ForwardRequests : AuthStart("h1", r)
    \/ AuthRecord("h1")
    \/ ProxyForward("h1")

SpecForward == InitForward /\ [][NextForward]_vars

\* what a header may carry for a value of the request context: nothing for
\* the empty string, else that one value
OnlyValue(v) == IF v = <<>> THEN <<>> ELSE <<v>>

\* C32: whatever x-user-id and x-scopes headers the client sent, the request
\* sent downstream carries under these names nothing but the subject and the
\* scope string the interceptor took from the validated token, and nothing
\* when there is none
C32_ForgedNeverForwarded ==
    out.kind = "forward" =>
        /\ HeaderValuesOf(http.sent, MetadataUserID) = OnlyValue(out.subject)
        /\ HeaderValuesOf(http.sent, MetadataScopes) = OnlyValue(out.scopes)

\* a request that forged both headers has been forwarded for an
\* authenticated user without scopes
C32_Witness ==
    /\ out.kind = "forward"
    /\ SentValues(http.wire, MetadataUserID) # <<>>
    /\ SentValues(http.wire, MetadataScopes) # <<>>
    /\ HeaderValuesOf(http.sent, MetadataUserID) = <<(<<"u">>)>>
    /\ HeaderValuesOf(http.sent, MetadataScopes) = <<>>

\* ------------------------------------------------------------- SpecStarve
\* Three PENDING reservations: 1 and 2 hold one unit of sku 1 each and
\* expire first, 3 holds one unit of sku 2 and expires one tick later. One
\* caller releases reservation 1 while the expirer runs with BatchSize; the
\* ticker keeps firing, every statement gets its answer and time passes.
InitStarve ==
    /\ BffInit
    /\ reservations = <<Reservation(<<Item(1, 1)>>, 0), Reservation(<<Item(1, 1)>>, 0),
                        Reservation(<<Item(2, 1)>>, 1)>>
    /\ inventory = [s \in SKUs |->
            Row(MaxStock, IF s = 1 THEN 2 ELSE 1,
                NewInventory(MaxStock).version + (IF s = 1 THEN 2 ELSE 1))]
    /\ relCount = [r \in 1..3 |-> <<NoRelease>>]
    /\ kv = [k \in KvKeys |-> Absent]
    /\ now = 0
    /\ tx = [c \in Clients |-> NoTx]
    /\ call = [c \in Clients |-> Idle]
    /\ wk = [w \in Workers |-> WorkerIdle]
    /\ first = NoFirst
    /\ keyExpired = FALSE
    /\ ret = NoRet

NextStarve ==
    \/ ReleaseReservationStart("c1", 1, NoKey)
    \/ ReleaseReservationItem("c1")
    \/ ReleaseReservationStatus("c1")
    \/ ExpirerTick("w1")
    \/ ExpirerItem("w1")
    \/ ExpirerStatus("w1")
    \/ Tick

SpecStarve ==
    /\ InitStarve
    /\ [][NextStarve]_vars
    /\ WF_vars(ReleaseReservationItem("c1"))
    /\ WF_vars(ReleaseReservationStatus("c1"))
    /\ WF_vars(ExpirerTick("w1"))
    /\ WF_vars(ExpirerItem("w1"))
    /\ WF_vars(ExpirerStatus("w1"))
    /\ WF_vars(Tick)

\* the expiry of reservation r fails: the release of one of its items
\* matches no row
ExpiryFails(r) ==
    \E i \in 1..Len(reservations[r].items) :
        inventory[reservations[r].items[i].sku].reserved < reservations[r].items[i].qty

ExpiredAndPending(r) ==
    reservations[r].status = ReservationStatusPending /\ reservations[r].expiresAt < now

\* C33: every expired PENDING reservation is eventually set to EXPIRED (or
\* otherwise leaves PENDING) unless it is one whose expiry fails, whatever
\* reservations keep failing
C33_OthersStillExpire ==
    \A r \in 1..3 :
        ExpiredAndPending(r) ~> (~ExpiredAndPending(r) \/ ExpiryFails(r))

\* ------------------------------------------------------------- SpecHealth
\* IsHealthy: m.healthy under healthMu
IsHealthy(j) == j.healthy

\* Close: setHealthy(false)
Close ==
    /\ ~jwks.closed
    /\ jwks' = [jwks EXCEPT !.healthy = FALSE, !.closed = TRUE]
    /\ out' = JwksOut("close", "direct", "nil", FALSE)
    /\ UNCHANGED jwksRest

\* one caller of GetKey, direct Refresh calls, key rotation, the cache's own
\* refresh, and Close at any moment
NextHealth ==
    \/ \E set \in KeySets : IdPRotate(set)
    \/ CacheScheduledRefresh
    \/ \E kid \in Kids, getOk \in BOOLEAN : GetKeyStart("g1", kid, getOk)
    \/ \E fetchOk \in BOOLEAN : GetKeyRefresh("g1", fetchOk)
    \/ \E getOk \in BOOLEAN : GetKeyRetry("g1", getOk)
    \/ GetKeyReturn("g1")
    \/ \E fetchOk \in BOOLEAN : RefreshCall(fetchOk)
    \/ Close
    \/ JwksTick

SpecHealth == InitJwks /\ [][NextHealth]_vars

\* C34: IsHealthy is true after the startup fetch, false after a failed
\* cache.Get or fetch, true after a fetch or a key lookup that succeeded, and
\* false at every moment after Close has been called
C34_HealthFollowsOperations ==
    /\ [](jwks.closed => ~IsHealthy(jwks))
    /\ [][/\ (out'.kind = "refresh" /\ out'.fetched) =>
                IsHealthy(jwks') = (out'.err = "nil")
          /\ (out'.kind = "getkey" /\ jwks'.req["g1"].result = "key") => IsHealthy(jwks')
          /\ (out'.kind = "getkey" /\ jwks'.req["g1"].result = "failed to get JWKS") =>
                ~IsHealthy(jwks')]_vars

\* the units of sku s held by the PENDING reservations among the first n
RECURSIVE PendingUnits(_, _)
PendingUnits(s, n) ==
    IF n = 0 THEN 0
    ELSE PendingUnits(s, n - 1) +
         (IF reservations[n].status = ReservationStatusPending
          THEN SumQty(reservations[n].items, s) ELSE 0)

\* no use-case call, no transaction and no expirer loop is in progress
NothingInFlight ==
    /\ \A c \in Clients : call[c].pc = "idle" /\ tx[c] = NoTx
    /\ \A w \in Workers : wk[w].pc \in {"wait", "stopped"}

\* C35: whenever no operation is in flight, the reserved count of every SKU
\* is the sum of the quantities its PENDING reservations hold
C35_ReservedIsPendingSum ==
    NothingInFlight =>
        \A s \in SKUs : inventory[s].reserved = PendingUnits(s, Len(reservations))

\* the units of sku s held by the CONFIRMED reservations among the first n
RECURSIVE ConfirmedUnits(_, _)
ConfirmedUnits(s, n) ==
    IF n = 0 THEN 0
    ELSE ConfirmedUnits(s, n - 1) +
         (IF reservations[n].status = ReservationStatusConfirmed
          THEN SumQty(reservations[n].items, s) ELSE 0)

\* C36: the quantity of a SKU is lowered by a reservation's units at most
\* once and only for a reservation that ends CONFIRMED: with nothing in
\* flight, what has been taken off the initial quantity is no more than the
\* CONFIRMED reservations hold
C36_QuantityTakenOnce ==
    NothingInFlight =>
        \A s \in SKUs : MaxStock - inventory[s].quantity <= ConfirmedUnits(s, Len(reservations))

\* C37: ConfirmReservation and ReleaseReservation are all-or-nothing: a call
\* that returns the error of the inventory statement of its k-th item has
\* left no inventory row changed (no statement of an earlier item of the
\* call has been applied, the failing one changes nothing, and no applied
\* statement is ever undone); the status is written only after the last item,
\* so such a call has not touched the reservation
C37_AllOrNothing ==
    [][\A c \in {"c1"} :
          (/\ call[c].pc = "item"
           /\ call'[c].pc = "idle"
           /\ ret'.c = c
           /\ ret'.err = "ErrInvalidReserved")
          => /\ call[c].idx = 1
             /\ inventory' = inventory
             /\ reservations' = reservations]_vars

\* C38: a ConfirmReservation(R, key) that returns success leaves R CONFIRMED
\* and a ReleaseReservation(R, key) that returns success leaves R RELEASED,
\* whatever the key was used for before
C38_SuccessMeansStatus ==
    (ret.err = "ok" /\ ret.op \in {"confirm", "release"}) =>
        reservations[ret.rid].status =
            (IF ret.op = "confirm" THEN ReservationStatusConfirmed
             ELSE ReservationStatusReleased)

\* C39: a BatchReserveInventory call that returns a reservation without
\* error returns one whose items are the requested (sku, quantity) pairs,
\* also when its idempotency key was used before with other items
C39_ReturnsRequestedItems ==
    [][\A c \in Clients :
        (/\ call[c].op = "reserve"
         /\ call'[c].pc = "idle"
         /\ ret'.c = c
         /\ ret'.err = "ok")
        => reservations'[ret'.rid].items \in SortedItems(call[c].items)]_vars

\* Inventory.SetQuantity: refuses a negative quantity and one below reserved,
\* otherwise sets the quantity and bumps the version
SetQuantity(row, quantity) ==
    IF quantity < 0 THEN NotAffected(row)
    ELSE IF quantity < row.reserved THEN NotAffected(row)
    ELSE Affected([row EXCEPT !.quantity = quantity, !.version = @ + 1])

\* C40: UpdateInventory(sku, q) succeeds exactly when Inventory.SetQuantity
\* accepts q (q >= 0 and q >= reserved) and then leaves quantity = q with
\* reserved unchanged; otherwise it fails and leaves the row unchanged
C40_UpdateFollowsSetQuantity ==
    [][\A c \in Clients, s \in SKUs, q \in 0..MaxStock :
        UpdateInventory(c, s, q) =>
            /\ (ret'.err = "ok") <=> SetQuantity(inventory[s], q).ok
            /\ inventory'[s] = SetQuantity(inventory[s], q).row]_vars

====
